---- MODULE Spec2Model ----
(***************************************************************************)
(* Model of the DICOM SEG mask decoder (src/src/image/maskFactory.js,      *)
(* MaskFactory.create and its helpers) and of the 3x3 matrix it uses       *)
(* (src/unnamed/part_000).                                                 *)
(*                                                                         *)
(* JavaScript values are tagged records [k, v] so that strict equality     *)
(* (===) between a string and a number is false, as in the language.       *)
(* Positions, spacings and cosines are integers (millimetres).             *)
(***************************************************************************)
EXTENDS Integers, Sequences, FiniteSets, TLC

(***************************************************************************)
(* Bounds of the model.                                                    *)
(***************************************************************************)
\* greatest number of frames of the frame-merging inputs
MaxFrames == 2
\* greatest slice coordinate of the gap-filling inputs
MaxZ == 4
\* number of columns of a frame (rows is 1): samples per slice
NCols == 2

(***************************************************************************)
(* JavaScript values.                                                      *)
(***************************************************************************)
Undefined == [k |-> "undefined"]
Str(s) == [k |-> "string", v |-> s]
Num(s) == [k |-> "number", v |-> s]
Arr(q) == [k |-> "array", v |-> q]
Elem(q) == [k |-> "element", value |-> q]

IsUndefined(x) == x.k = "undefined"
IsArray(x) == x.k = "array"
\* the === operator on primitive values
StrictEquals(a, b) == a.k = b.k /\ a.k \in {"string", "number"} /\ a.v = b.v

Range(q) == {q[i] : i \in 1..Len(q)}
Count(q, x) == Cardinality({i \in 1..Len(q) : q[i] = x})
Min(S) == CHOOSE x \in S : \A y \in S : x <= y

(***************************************************************************)
(* utils/array arraySortEquals: equality of the sorted copies of two       *)
(* arrays, i.e. equality as multisets.                                     *)
(***************************************************************************)
arraySortEquals(arr0, arr1) ==
    /\ Len(arr0) = Len(arr1)
    /\ \A x \in Range(arr0) \cup Range(arr1) : Count(arr0, x) = Count(arr1, x)

(***************************************************************************)
(* The required-tag table.                                                 *)
(***************************************************************************)
TagDef(n, t, ty, e) == [name |-> n, tag |-> t, type |-> ty, enum |-> e]

RequiredDicomSegTags == <<
    TagDef("TransferSyntaxUID", "00020010", Str("1"),
        <<Str("1.2.840.10008.1.2.1")>>),
    TagDef("MediaStorageSOPClassUID", "00020002", Str("1"),
        <<Str("1.2.840.10008.5.1.4.1.1.66.4")>>),
    TagDef("SOPClassUID", "00020002", Str("1"),
        <<Str("1.2.840.10008.5.1.4.1.1.66.4")>>),
    TagDef("Modality", "00080060", Str("1"), <<Str("SEG")>>),
    TagDef("SegmentationType", "00620001", Str("1"), <<Str("BINARY")>>),
    TagDef("DimensionOrganizationType", "00209311", Str("3"), <<Str("3D")>>),
    TagDef("ImageType", "00080008", Str("1"),
        <<Arr(<<Str("DERIVED"), Str("PRIMARY")>>)>>),
    TagDef("SamplesPerPixel", "00280002", Str("1"), <<Num("1")>>),
    TagDef("PhotometricInterpretation", "00280004", Str("1"),
        <<Str("MONOCHROME2")>>),
    TagDef("PixelRepresentation", "00280103", Str("1"), <<Num("0")>>),
    TagDef("BitsAllocated", "00280100", Str("1"), <<Num("1")>>),
    TagDef("BitsStored", "00280101", Str("1"), <<Num("1")>>),
    TagDef("HighBit", "00280102", Str("1"), <<Num("0")>> ) >>

NumDefs == Len(RequiredDicomSegTags)
TagKeys == {RequiredDicomSegTags[d].tag : d \in 1..NumDefs}

\* variant: the entries are keyed by the tag of the definition
defaultKey_Tag(reqTag) == reqTag.tag

\* tags[reqTag.name]
defaultKey(reqTag) == reqTag.name

\* the loop of getDefaultDicomSegJson from definition i
RECURSIVE defaultTagsFrom(_, _)
defaultTagsFrom(i, tags) ==
    IF i > NumDefs THEN tags
    ELSE LET reqTag == RequiredDicomSegTags[i]
         IN  defaultTagsFrom(i + 1,
                (defaultKey(reqTag) :> reqTag.enum[1]) @@ tags)

getDefaultDicomSegJson == defaultTagsFrom(1, <<>>)

(***************************************************************************)
(* Outcomes of a call: normal return or a thrown error.                    *)
(*   MissingTag          'Missing or empty <name>'                         *)
(*   UnsupportedTagValue 'Unsupported <name> value: <value>'               *)
(*   CannotCompare       'Cannot compare array and non array tag value.'   *)
(***************************************************************************)
Returned == [kind |-> "ok"]
Throw(kind) == [kind |-> kind]
ThrowTag(kind, name, value) == [kind |-> kind, name |-> name, value |-> value]

(***************************************************************************)
(* checkTag: presence and value check of one tag definition.               *)
(***************************************************************************)
\* the value compared: the single value, or the whole value sequence
checkTagValue(element) ==
    IF Len(element.value) = 1 THEN element.value[1] ELSE Arr(element.value)

\* variant: an array value against a non array accepted value is reported
\* as an unsupported value
checkTagArrayLoop_Unsupported(tagDefinition, tagValue) ==
    IF \E i \in 1..Len(tagDefinition.enum) :
            /\ IsArray(tagDefinition.enum[i])
            /\ arraySortEquals(tagDefinition.enum[i].v, tagValue.v)
    THEN Returned
    ELSE ThrowTag("UnsupportedTagValue", tagDefinition.name, tagValue)

\* the loop over the accepted values for an array tag value
checkTagArrayLoop(tagDefinition, tagValue) ==
    LET enum == tagDefinition.enum
        nonArrays == {i \in 1..Len(enum) : ~IsArray(enum[i])}
        matches == {i \in 1..Len(enum) :
                      IsArray(enum[i]) /\ arraySortEquals(enum[i].v, tagValue.v)}
        stop == nonArrays \cup matches
    IN  IF stop = {} THEN
            ThrowTag("UnsupportedTagValue", tagDefinition.name, tagValue)
        ELSE IF Min(stop) \in nonArrays THEN Throw("CannotCompare")
        ELSE Returned

checkTag(dataElements, tagDefinition) ==
    LET element == dataElements[tagDefinition.tag]
        mandatory == \/ StrictEquals(tagDefinition.type, Num("1"))
                     \/ StrictEquals(tagDefinition.type, Num("2"))
    IN  IF IsUndefined(element) THEN
            IF mandatory
            THEN ThrowTag("MissingTag", tagDefinition.name, Undefined)
            ELSE Returned
        ELSE LET tagValue == checkTagValue(element)
             IN  IF IsArray(tagValue)
                 THEN checkTagArrayLoop(tagDefinition, tagValue)
                 ELSE IF \E i \in 1..Len(tagDefinition.enum) :
                            StrictEquals(tagDefinition.enum[i], tagValue)
                      THEN Returned
                      ELSE ThrowTag("UnsupportedTagValue",
                                    tagDefinition.name, tagValue)

\* the loop of create over the table: the outcomes of the calls made,
\* up to and including the first one that throws
RECURSIVE checkTagsFrom(_, _)
checkTagsFrom(dataElements, d) ==
    IF d > NumDefs THEN <<>>
    ELSE LET r == checkTag(dataElements, RequiredDicomSegTags[d])
         IN  IF r.kind = "ok"
             THEN <<r>> \o checkTagsFrom(dataElements, d + 1)
             ELSE <<r>>

(***************************************************************************)
(* Matrix33 (row-major 9 values), vectors and points (3 values).           *)
(***************************************************************************)
\* Matrix33.get, rows and columns counted from 0
get(m, row, col) == m[row * 3 + col + 1]

\* Vector3D.crossProduct
crossProduct(a, b) ==
    << a[2] * b[3] - a[3] * b[2],
       a[3] * b[1] - a[1] * b[3],
       a[1] * b[2] - a[2] * b[1] >>

\* x times (1 / det): exact on the matrices of the model, whose
\* determinant is -1, 0 or 1
TimesInverseOf(det, x) == IF det > 0 THEN x \div det ELSE (0 - x) \div (0 - det)

determinant(m) ==
    LET a1212 == get(m, 1, 1) * get(m, 2, 2) - get(m, 1, 2) * get(m, 2, 1)
        a2012 == get(m, 1, 2) * get(m, 2, 0) - get(m, 1, 0) * get(m, 2, 2)
        a0112 == get(m, 1, 0) * get(m, 2, 1) - get(m, 1, 1) * get(m, 2, 0)
    IN  get(m, 0, 0) * a1212 + get(m, 0, 1) * a2012 + get(m, 0, 2) * a0112

\* getMatrixInverse: Undefined when the determinant is zero
getMatrixInverse(m) ==
    LET m00 == get(m, 0, 0)
        m01 == get(m, 0, 1)
        m02 == get(m, 0, 2)
        m10 == get(m, 1, 0)
        m11 == get(m, 1, 1)
        m12 == get(m, 1, 2)
        m20 == get(m, 2, 0)
        m21 == get(m, 2, 1)
        m22 == get(m, 2, 2)
        a1212 == m11 * m22 - m12 * m21
        a2012 == m12 * m20 - m10 * m22
        a0112 == m10 * m21 - m11 * m20
        det == m00 * a1212 + m01 * a2012 + m02 * a0112
    IN  IF det = 0 THEN Undefined
        ELSE [k |-> "matrix", values |-> <<
                TimesInverseOf(det, a1212),
                TimesInverseOf(det, m02 * m21 - m01 * m22),
                TimesInverseOf(det, m01 * m12 - m02 * m11),
                TimesInverseOf(det, a2012),
                TimesInverseOf(det, m00 * m22 - m02 * m20),
                TimesInverseOf(det, m02 * m10 - m00 * m12),
                TimesInverseOf(det, a0112),
                TimesInverseOf(det, m01 * m20 - m00 * m21),
                TimesInverseOf(det, m00 * m11 - m01 * m10) >>]

\* variant: the right-hand side is read column for row
multiply_Transposed(m, rhs) ==
    [n \in 1..9 |->
        LET i == (n - 1) \div 3
            j == (n - 1) % 3
        IN  get(m, i, 0) * get(rhs, j, 0) + get(m, i, 1) * get(rhs, j, 1)
            + get(m, i, 2) * get(rhs, j, 2)]

\* Matrix33.multiply: the values of the product, row-major
multiply(m, rhs) ==
    [n \in 1..9 |->
        LET i == (n - 1) \div 3
            j == (n - 1) % 3
        IN  get(m, i, 0) * get(rhs, 0, j) + get(m, i, 1) * get(rhs, 1, j)
            + get(m, i, 2) * get(rhs, 2, j)]

\* Matrix33.multiplyArray3D
multiplyArray3D(m, a) ==
    [i \in 1..3 |-> get(m, i - 1, 0) * a[1] + get(m, i - 1, 1) * a[2]
                    + get(m, i - 1, 2) * a[3]]

\* the orientation matrix create builds from the six cosines
\* (parseFloat of a numeric value is that value)
orientationMatrixOf(iop) ==
    LET rowCosines == <<iop[1], iop[2], iop[3]>>
        colCosines == <<iop[4], iop[5], iop[6]>>
        normal == crossProduct(rowCosines, colCosines)
    IN  << rowCosines[1], colCosines[1], normal[1],
           rowCosines[2], colCosines[2], normal[2],
           rowCosines[3], colCosines[3], normal[3] >>

\* equalPosPat: equality of the JSON texts of two positions
equalPosPat(pos1, pos2) == pos1 = pos2

includesPosPat(arr, val) == \E i \in 1..Len(arr) : equalPosPat(val, arr[i])

\* findIndexPosPat, counted from 0; -1 when not found
findIndexPosPat(arr, val) ==
    LET hits == {i \in 1..Len(arr) : equalPosPat(val, arr[i])}
    IN  IF hits = {} THEN 0 - 1 ELSE Min(hits) - 1

\* the sort key of getComparePosPat: third component of inverse * position
posPatKey(invOrientation, pos) == multiplyArray3D(invOrientation.values, pos)[3]

\* variant: the difference is taken the other way round
comparePosPat_Reversed(invOrientation, pos1, pos2) ==
    posPatKey(invOrientation, pos2) - posPatKey(invOrientation, pos1)

\* the comparator getComparePosPat returns: p1[2] - p2[2]
comparePosPat(invOrientation, pos1, pos2) ==
    posPatKey(invOrientation, pos1) - posPatKey(invOrientation, pos2)

\* Array.prototype.sort with the comparator of getComparePosPat: a stable
\* sort in ascending order of the key
RECURSIVE insertPosPat(_, _, _)
insertPosPat(invOrientation, sorted, pos) ==
    IF sorted = <<>> THEN <<pos>>
    ELSE IF comparePosPat(invOrientation, sorted[Len(sorted)], pos) > 0
         THEN Append(insertPosPat(invOrientation,
                                  SubSeq(sorted, 1, Len(sorted) - 1), pos),
                     sorted[Len(sorted)])
         ELSE Append(sorted, pos)

RECURSIVE sortPosPats(_, _)
sortPosPats(invOrientation, arr) ==
    IF arr = <<>> THEN <<>>
    ELSE insertPosPat(invOrientation,
                      sortPosPats(invOrientation, SubSeq(arr, 1, Len(arr) - 1)),
                      arr[Len(arr)])

Abs(x) == IF x < 0 THEN 0 - x ELSE x

\* getSliceGeometrySpacing: the smallest distance along the normal between
\* consecutive origins; undefined for fewer than two origins
getSliceGeometrySpacing(origins, orientation) ==
    IF Len(origins) <= 1 THEN [kind |-> "ok", value |-> Undefined]
    ELSE LET invOrientation == getMatrixInverse(orientation)
             diffs == {Abs(posPatKey(invOrientation, origins[i])
                           - posPatKey(invOrientation, origins[i + 1])) :
                         i \in 1..(Len(origins) - 1)}
         IN  IF IsUndefined(invOrientation) THEN Throw("TypeError")
             ELSE IF 0 \in diffs THEN Throw("ZeroSliceSpacing")
             ELSE [kind |-> "ok", value |-> [k |-> "number", n |-> Min(diffs)]]

\* Geometry.indexToWorld of the index (0, 0, sliceIndex)
indexToWorld(origin, spacing, orientation, sliceIndex) ==
    LET oriented == multiplyArray3D(orientation, <<0, 0, sliceIndex * spacing[3]>>)
    IN  <<oriented[1] + origin[1], oriented[2] + origin[2],
          oriented[3] + origin[3]>>

\* the square of Point3D.getDistance
getDistance2(p, q) ==
    (p[1] - q[1]) * (p[1] - q[1]) + (p[2] - q[2]) * (p[2] - q[2])
    + (p[3] - q[3]) * (p[3] - q[3])

(***************************************************************************)
(* REAL_WORLD_EPSILON is 1e-4 = 1 / RealWorldEpsilonInv.  Lengths are      *)
(* integers that count units of 10 * REAL_WORLD_EPSILON (a thousandth of a *)
(* millimetre), so that distances between the epsilon tiers exist.         *)
(* Distances are kept squared: value > eps * f reads, in units,            *)
(* value2 > (f / 10)^2, and for an integer value2 that is                  *)
(* value2 > floor(f * f / 100).                                            *)
(***************************************************************************)
RealWorldEpsilonInv == 10000
UnitsPerMm == RealWorldEpsilonInv \div 10
UnitsPerEpsilonInv == RealWorldEpsilonInv \div UnitsPerMm
\* a length, and a list of lengths, given in millimetres
Mm(x) == x * UnitsPerMm
MmAll(v) == [i \in 1..Len(v) |-> Mm(v[i])]

\* variant: a value equal to the threshold counts as above it
aboveEpsilon_OrEqual(value2, factor) ==
    value2 >= (factor * factor) \div (UnitsPerEpsilonInv * UnitsPerEpsilonInv)

\* value > REAL_WORLD_EPSILON * factor, on the squares
aboveEpsilon(value2, factor) ==
    value2 > (factor * factor) \div (UnitsPerEpsilonInv * UnitsPerEpsilonInv)

\* isNotSmall: the result and the number of warnings logged
isNotSmall(value2) ==
    IF ~aboveEpsilon(value2, 1) THEN [res |-> FALSE, warn |-> 0]
    ELSE IF ~aboveEpsilon(value2, 10) THEN [res |-> FALSE, warn |-> 1]
    ELSE IF ~aboveEpsilon(value2, 100) THEN [res |-> FALSE, warn |-> 1]
    ELSE [res |-> TRUE, warn |-> 0]

\* variant: the geometry keeps the declared spacing
tmpGeometrySpacing_Declared(declared, calculated) == declared

\* the spacing of tmpGeometry: 'correct spacing but only one slice'
tmpGeometrySpacing(declared, calculated) == calculated

\* variant: the slice index stays the same after a push
sliceIndexAfterPush_Same(sliceIndex) == sliceIndex

\* ++sliceIndex in the while loop
sliceIndexAfterPush(sliceIndex) == sliceIndex + 1

\* the while loop of 'add possibly missing posPats' for one frame origin;
\* a throw leaves the positions pushed so far
RECURSIVE addIntermediate(_, _, _, _, _, _)
addIntermediate(origin, spacing, orientation, frameOrigin, distPrevious, st) ==
    LET t == isNotSmall(st.dist)
    IN  IF ~t.res
        THEN [kind |-> "ok", sliceIndex |-> st.sliceIndex, point |-> st.point,
              posPats |-> st.posPats, warn |-> st.warn + t.warn]
        ELSE LET sliceIndex == sliceIndexAfterPush(st.sliceIndex)
                 point == indexToWorld(origin, spacing, orientation, sliceIndex)
                 dist == getDistance2(frameOrigin, point)
             IN  IF dist > distPrevious
                 THEN [kind |-> "IntermediatePositionDivergence",
                       posPats |-> Append(st.posPats, st.point)]
                 ELSE addIntermediate(origin, spacing, orientation,
                        frameOrigin, distPrevious,
                        [sliceIndex |-> sliceIndex, point |-> point,
                         dist |-> dist,
                         posPats |-> Append(st.posPats, st.point),
                         warn |-> st.warn + t.warn])

\* variant: the point of the geometry is pushed for the frame
addedPosPat_Point(framePosPat, point) == point

\* 'add frame pos pat': posPats.push(framePosPats[g])
addedPosPat(framePosPat, point) == framePosPat

\* variant: the slice index is not advanced at the start of a round
nextSliceIndex_Same(sliceIndex) == sliceIndex

\* ++sliceIndex at the start of a round of the for loop
nextSliceIndex(sliceIndex) == sliceIndex + 1

\* the for loop over the sorted frame positions, from index g (counted
\* from 1 here, so g = 2 is the loop's first round)
RECURSIVE addMissingPosPats(_, _, _, _, _)
addMissingPosPats(framePosPats, spacing, orientation, g, acc) ==
    IF g > Len(framePosPats) THEN acc
    ELSE LET sliceIndex == nextSliceIndex(acc.sliceIndex)
             point == indexToWorld(framePosPats[1], spacing, orientation,
                                   sliceIndex)
             dist == getDistance2(framePosPats[g], point)
             r == addIntermediate(framePosPats[1], spacing, orientation,
                    framePosPats[g], dist,
                    [sliceIndex |-> sliceIndex, point |-> point, dist |-> dist,
                     posPats |-> acc.posPats, warn |-> acc.warn])
         IN  IF r.kind # "ok" THEN r
             ELSE addMissingPosPats(framePosPats, spacing, orientation, g + 1,
                    [kind |-> "ok", sliceIndex |-> r.sliceIndex,
                     posPats |-> Append(r.posPats,
                                        addedPosPat(framePosPats[g], r.point)),
                     warn |-> r.warn])

(***************************************************************************)
(* The parts of the DICOM layer that create calls.                         *)
(***************************************************************************)
Number(n) == [k |-> "number", n |-> n]
NaN == [k |-> "NaN"]

\* parseInt(text, 10) on the texts of the model
parseInt(text) ==
    CASE text = "0" -> Number(0)
      [] text = "1" -> Number(1)
      [] text = "2" -> Number(2)
      [] text = "3" -> Number(3)
      [] text = "4" -> Number(4)
      [] text = "2.5" -> Number(2)
      [] OTHER -> NaN

\* getImage2DSize: columns and rows
getImage2DSize(in) == <<in.columns, in.rows>>

\* Size.getTotalSize of [columns, rows, 1]
sliceSizeOf(in) == getImage2DSize(in)[1] * getImage2DSize(in)[2] * 1

\* variant: the quotient taken as an integer division
framesDifferFromBuffer_IntegerDivision(frames, length, sliceSize) ==
    ~(frames.k = "number" /\ sliceSize # 0
      /\ frames.n = length \div sliceSize)

\* frames !== pixelBuffer.length / sliceSize, the quotient being a real
\* number (Infinity or NaN when sliceSize is 0)
framesDifferFromBuffer(frames, length, sliceSize) ==
    ~(frames.k = "number" /\ sliceSize # 0 /\ frames.n * sliceSize = length)

\* getSegment: number, displayValue and displayRGBValue of a sequence item
getSegment(item) ==
    [k |-> "segment", number |-> item.number,
     displayValue |-> item.displayValue,
     displayRGBValue |-> item.displayRGBValue]

\* getSegmentFrameInfo: the frame's segment reference, position and the
\* optional orientation and spacing
getSegmentFrameInfo(item) ==
    [refSegmentNumber |-> item.refSegmentNumber,
     imagePosPat |-> item.imagePosPat,
     imageOrientationPatient |-> item.imageOrientationPatient,
     spacing |-> item.spacing]

\* getSpacingFromMeasure and Spacing.equals
Spacing(values) == [k |-> "spacing", values |-> values]
getSpacingFromMeasure(item) == Spacing(item)
spacingEquals(s1, s2) == \A i \in 1..3 : s1.values[i] = s2.values[i]

(***************************************************************************)
(* getDimensionOrganization.                                               *)
(***************************************************************************)
\* variant: the organization of an index is not looked at
indexOrgUnknown_Never(indexOrg, orgUID) == FALSE

\* an index of another organization than the one of the organization sequence
indexOrgUnknown(indexOrg, orgUID) == indexOrg # orgUID

getDimensionOrganization(in) ==
    LET orgSq == in.orgSq
        indexSqElem == in.indexSq
    IN  IF IsUndefined(orgSq) \/ Len(orgSq.value) # 1
        THEN Throw("DimensionOrganizationLength")
        ELSE IF IsUndefined(indexSqElem) THEN Returned
        ELSE LET indexSq == indexSqElem.value
                 orgUID == orgSq.value[1]
                 unknown == {i \in 1..Len(indexSq) :
                                indexOrgUnknown(indexSq[i].org, orgUID)}
             IN  IF Len(indexSq) # 2 THEN Throw("DimensionIndexLength")
                 ELSE IF unknown # {} THEN Throw("UnknownDimensionOrganization")
                 ELSE IF indexSq[2].pointer # "(0020,0032)"
                      THEN Throw("NonImagePositionLastIndex")
                      ELSE Returned

(***************************************************************************)
(* The decoder's inputs: a tag store and a pixel buffer.                   *)
(***************************************************************************)
Axial == <<1, 0, 0, 0, 1, 0>>
\* rows and columns swapped: a reordering of the axial cosines
Swapped == <<0, 1, 0, 1, 0, 0>>
Flipped == <<0 - 1, 0, 0, 0, 1, 0>>
\* parallel cosines: zero determinant
Degenerate == <<1, 0, 0, 1, 0, 0>>
\* all-zero cosines: zero determinant
ZeroCosines == <<0, 0, 0, 0, 0, 0>>
Orientations == {Axial, Swapped, Flipped, Degenerate}

FullMask == [l \in 1..NCols |-> 1]

Scalar(n, v) ==
    [number |-> n, displayValue |-> Number(v), displayRGBValue |-> Undefined]
Rgb(n, r, g, b) ==
    [number |-> n, displayValue |-> Undefined,
     displayRGBValue |-> [k |-> "rgb", r |-> r, g |-> g, b |-> b]]

ScalarSegments == <<Scalar(1, 5), Scalar(2, 7)>>
RgbSegments == <<Rgb(1, 255, 0, 0), Rgb(2, 0, 255, 9)>>
MixedSegments == <<Rgb(1, 255, 0, 0), Scalar(2, 7)>>
SegmentOptions == {<<>>, ScalarSegments, RgbSegments, MixedSegments}

\* a frame item; the position is given in millimetres
FrameItem(ref, pos, iop, sp) ==
    [refSegmentNumber |-> ref, imagePosPat |-> MmAll(pos),
     imageOrientationPatient |-> iop, spacing |-> sp]
\* a frame of segment 1 at slice coordinate z, geometry in the shared group
PlainFrame(z) == FrameItem(1, <<0, 0, z>>, Undefined, Undefined)

SharedGroup(iopSeq, measureSeq) ==
    [k |-> "group", planeOrientationSeq |-> iopSeq,
     pixelMeasuresSeq |-> measureSeq]

NumberText == <<"1", "2", "3", "4">>

\* the default value of a definition as a tag element
DefaultElement(tagDefinition) ==
    IF IsArray(tagDefinition.enum[1])
    THEN Elem(tagDefinition.enum[1].v)
    ELSE Elem(<<tagDefinition.enum[1]>>)

DefaultStore ==
    [key \in TagKeys |->
        DefaultElement(RequiredDicomSegTags[
            Min({d \in 1..NumDefs : RequiredDicomSegTags[d].tag = key})])]

RECURSIVE Concat(_)
Concat(qs) == IF qs = <<>> THEN <<>> ELSE Head(qs) \o Concat(Tail(qs))

\* an input with the given frames and their masks, all else valid
FramesInput(items, masks, segs, shared) ==
    [dataElements |-> DefaultStore,
     columns |-> NCols, rows |-> 1,
     numberOfFrames |-> Elem(<<Str(NumberText[Len(items)])>>),
     pixelBuffer |-> Concat(masks),
     orgSq |-> Elem(<<"org">>),
     indexSq |-> Undefined,
     segSequence |-> Elem(segs),
     shared |-> shared,
     perFrame |-> Elem(items),
     sopInstanceUID |-> TRUE]

AxialShared(sz) ==
    SharedGroup(Elem(<<Axial>>), Elem(<<MmAll(<<1, 1, sz>>)>>))

\* two frames at (0,0,0) and (0,0,4), declared spacing (1,1,2), one segment
\* of display value 5, all mask samples set
ScenarioInput ==
    FramesInput(<<PlainFrame(0), PlainFrame(4)>>, <<FullMask, FullMask>>,
                <<Scalar(1, 5)>>, AxialShared(2))

\* tag stores: the default store with one element replaced, and with one
\* element absent and another one replaced
ElementVariants ==
    {Undefined, Elem(<<>>), Elem(<<Str("BAD")>>), Elem(<<Str("1")>>),
     Elem(<<Str("PRIMARY"), Str("DERIVED")>>), Elem(<<Str("DERIVED")>>),
     Elem(<<Str("DERIVED"), Str("PRIMARY"), Str("DERIVED")>>),
     Elem(<<Num("1"), Num("1")>>)}
TagStores ==
    {[DefaultStore EXCEPT ![k1] = v1] : k1 \in TagKeys, v1 \in ElementVariants}
    \cup
    {[DefaultStore EXCEPT ![k1] = Undefined, ![k2] = v2] :
        <<k1, k2, v2>> \in
            {q \in TagKeys \X TagKeys \X ElementVariants : q[1] # q[2]}}
TagInput(s) == [ScenarioInput EXCEPT !.dataElements = s]

\* frame counts: declared number, buffer length and per-frame sequence vary
PlainFrames(n) == [i \in 1..n |-> PlainFrame(i - 1)]
FrameNumbers ==
    {Undefined} \cup {Elem(<<Str(t)>>) : t \in {"1", "2", "3", "2.5", "x"}}
PerFrameOptions ==
    {Undefined} \cup {Elem(PlainFrames(n)) : n \in 0..(MaxFrames + 1)}
CountInput(nf, len, pf, rw, sq, og) ==
    [ScenarioInput EXCEPT
        !.numberOfFrames = nf, !.pixelBuffer = [i \in 1..len |-> 1],
        !.perFrame = pf, !.rows = rw, !.segSequence = sq, !.orgSq = og]

\* orientation and spacing sources: shared group and frames vary
OrientFrameOptions ==
    ({Undefined} \cup {Arr(o) : o \in Orientations})
    \X {Undefined, Spacing(MmAll(<<1, 1, 1>>))}
OrientShared ==
    {Undefined, SharedGroup(Elem(<<Axial>>), Elem(<<>>)),
     SharedGroup(Elem(<<Axial>>), Elem(<<MmAll(<<1, 1, 2>>)>>))}
    \cup
    {SharedGroup(io, ms) :
        io \in {Undefined, Elem(<<>>), Elem(<<Axial>>), Elem(<<Swapped>>),
                Elem(<<Degenerate>>), Elem(<<ZeroCosines>>)},
        ms \in {Undefined, Elem(<<MmAll(<<1, 1, 1>>)>>)}}
OrientInput(fs, sh) ==
    FramesInput([i \in 1..Len(fs) |->
                    FrameItem(1, <<0, 0, i - 1>>, fs[i][1], fs[i][2])],
                [i \in 1..Len(fs) |-> FullMask],
                <<Scalar(1, 5)>>, sh)

\* merging: segment kinds, references, slices and masks vary
FirstOnlyMask == [l \in 1..NCols |-> IF l = 1 THEN 1 ELSE 0]
EmptyMask == [l \in 1..NCols |-> 0]
MergeFrameOptions ==
    {<<0, 1>>, <<0, 2>>, <<0, 3>>, <<1, 1>>, <<1, 2>>}
    \X {EmptyMask, FirstOnlyMask, FullMask}
MergeInput(fs, segs) ==
    FramesInput([i \in 1..Len(fs) |->
                    FrameItem(fs[i][1][2], <<0, 0, fs[i][1][1]>>,
                              Undefined, Undefined)],
                [i \in 1..Len(fs) |-> fs[i][2]],
                segs, AxialShared(1))

\* gap filling: up to three positions on and next to the z axis
GapFrameOptions == {0, 1} \X (0..MaxZ)
GapInput(fs, sz, iop) ==
    FramesInput([i \in 1..Len(fs) |->
                    FrameItem(1, <<fs[i][1], 0, fs[i][2]>>,
                              Undefined, Undefined)],
                [i \in 1..Len(fs) |-> FullMask],
                <<Scalar(1, 5)>>,
                SharedGroup(Elem(<<iop>>), Elem(<<MmAll(<<1, 1, sz>>)>>)))

\* tolerance tiers: up to three positions on the z axis, each a whole number
\* of millimetres (not twice the same) plus an offset of 0, 10, 50 or 200
\* REAL_WORLD_EPSILON
Offsets == {0, 1, 5, 20}
ToleranceFrameOptions == (0..3) \X Offsets
ToleranceInput(fs) ==
    FramesInput([i \in 1..Len(fs) |->
                    [PlainFrame(fs[i][1]) EXCEPT
                        !.imagePosPat[3] = Mm(fs[i][1]) + fs[i][2]]],
                [i \in 1..Len(fs) |-> FullMask],
                <<Scalar(1, 5)>>, AxialShared(1))

\* dimension index sequences
IndexSequences ==
    {<<>>,
     <<[org |-> "org", pointer |-> "(0020,9056)"],
       [org |-> "org", pointer |-> "(0020,0032)"]>>,
     <<[org |-> "org", pointer |-> "(0020,0032)"],
       [org |-> "org", pointer |-> "(0020,9056)"]>>,
     <<[org |-> "other", pointer |-> "(0020,9056)"],
       [org |-> "org", pointer |-> "(0020,0032)"]>>}

\* dimension organization: both sequences vary in length and content
MaxIndexLen == 3
OrganizationSequences ==
    {Undefined, Elem(<<>>), Elem(<<"org">>), Elem(<<"other">>),
     Elem(<<"org", "other">>)}
IndexItems ==
    {[org |-> o, pointer |-> p] :
        o \in {"org", "other"}, p \in {"(0020,9056)", "(0020,0032)"}}
DimensionInput(og, ix) == [ScenarioInput EXCEPT !.orgSq = og, !.indexSq = ix]

\* a tag store with one element replaced, on an input that later stages
\* reject as well: buffer length, dimension organization, segment sequence
StagesInput(s, len, og, sq) ==
    [ScenarioInput EXCEPT
        !.dataElements = s, !.pixelBuffer = [i \in 1..len |-> 1],
        !.orgSq = og, !.segSequence = sq]

\* the inputs of create that are explored
IsInput(in) ==
    \/ \E s \in TagStores : in = TagInput(s)
    \/ \E k1 \in TagKeys, v1 \in ElementVariants,
          len \in {0, Len(ScenarioInput.pixelBuffer)},
          og \in {Undefined, ScenarioInput.orgSq},
          sq \in {Undefined, ScenarioInput.segSequence} :
            in = StagesInput([DefaultStore EXCEPT ![k1] = v1], len, og, sq)
    \/ \E nf \in FrameNumbers, len \in 0..((MaxFrames + 1) * NCols),
          pf \in PerFrameOptions, rw \in {0, 1},
          sq \in {Undefined, Elem(<<>>), Elem(<<Scalar(1, 5)>>)},
          og \in {Undefined, Elem(<<"org">>)} :
            in = CountInput(nf, len, pf, rw, sq, og)
    \/ \E m \in 1..MaxFrames : \E fs \in [1..m -> OrientFrameOptions] :
          \E sh \in OrientShared : in = OrientInput(fs, sh)
    \/ \E m \in 1..MaxFrames : \E fs \in [1..m -> MergeFrameOptions] :
          \E segs \in SegmentOptions : in = MergeInput(fs, segs)
    \/ \E m \in 1..3 : \E fs \in [1..m -> GapFrameOptions] :
          \E sz \in {1, 2}, iop \in {Axial, Flipped} :
              in = GapInput(fs, sz, iop)
    \/ \E m \in 1..3 : \E fs \in [1..m -> ToleranceFrameOptions] :
          /\ \A i, j \in 1..m : i # j => fs[i][1] # fs[j][1]
          /\ in = ToleranceInput(fs)
    \/ in = [ScenarioInput EXCEPT !.sopInstanceUID = FALSE]
    \/ \E q \in IndexSequences : in = [ScenarioInput EXCEPT !.indexSq = Elem(q)]
    \/ \E og \in OrganizationSequences :
          \/ in = DimensionInput(og, Undefined)
          \/ \E m \in 0..MaxIndexLen : \E q \in [1..m -> IndexItems] :
                in = DimensionInput(og, Elem(q))

\* variant: the declared spacing is kept
calculatedSpacing_Declared(declared, geoSliceSpacing) == declared

\* 'use calculated spacing': the slice spacing found from the origins
\* replaces the third declared value when it is defined and differs
calculatedSpacing(declared, geoSliceSpacing) ==
    IF ~IsUndefined(geoSliceSpacing) /\ geoSliceSpacing.n # declared.values[3]
    THEN Spacing([declared.values EXCEPT ![3] = geoSliceSpacing.n])
    ELSE declared

\* variant: one channel whatever the mode
bufferLength_OneChannel(channels, sliceSize, slices) == sliceSize * slices

\* length of the output buffer
bufferLength(channels, sliceSize, slices) == channels * sliceSize * slices

(***************************************************************************)
(* The loops of create.                                                    *)
(***************************************************************************)
\* 'check frame infos': positions without duplicates, one orientation and
\* one spacing; acc holds framePosPats, imageOrientationPatient, spacing
RECURSIVE checkFrameInfosFrom(_, _, _)
checkFrameInfosFrom(infos, ii, acc) ==
    IF ii > Len(infos) THEN acc
    ELSE LET info == infos[ii]
             posPats2 ==
                 IF ~includesPosPat(acc.framePosPats, info.imagePosPat)
                 THEN Append(acc.framePosPats, info.imagePosPat)
                 ELSE acc.framePosPats
             hasIop == ~IsUndefined(info.imageOrientationPatient)
             hasSpacing == ~IsUndefined(info.spacing)
         IN  IF /\ hasIop
                /\ ~IsUndefined(acc.imageOrientationPatient)
                /\ ~arraySortEquals(acc.imageOrientationPatient.v,
                                    info.imageOrientationPatient.v)
             THEN Throw("MultiOrientation")
             ELSE IF /\ hasSpacing
                     /\ ~IsUndefined(acc.spacing)
                     /\ ~spacingEquals(acc.spacing, info.spacing)
             THEN Throw("MultiResolution")
             ELSE checkFrameInfosFrom(infos, ii + 1,
                    [kind |-> "ok",
                     framePosPats |-> posPats2,
                     imageOrientationPatient |->
                        IF hasIop /\ IsUndefined(acc.imageOrientationPatient)
                        THEN info.imageOrientationPatient
                        ELSE acc.imageOrientationPatient,
                     spacing |->
                        IF hasSpacing /\ IsUndefined(acc.spacing)
                        THEN info.spacing
                        ELSE acc.spacing])

\* variant: the orientation is looked at first
missingSource_OrientationFirst(sp, iop) ==
    IF IsUndefined(iop) THEN Throw("MissingOrientation")
    ELSE IF IsUndefined(sp) THEN Throw("MissingSpacing")
    ELSE Returned

\* 'check spacing and orientation', after the loop on the frame infos
missingSource(sp, iop) ==
    IF IsUndefined(sp) THEN Throw("MissingSpacing")
    ELSE IF IsUndefined(iop) THEN Throw("MissingOrientation")
    ELSE Returned

\* segments.find by number
findSegment(segs, number) ==
    LET hits == {i \in 1..Len(segs) : segs[i].number = number}
    IN  IF hits = {} THEN Undefined ELSE segs[Min(hits)]

\* variant: every sample of the frame is written
sampleIsSet_Always(pixelBuffer, index) == TRUE

\* pixelBuffer[index] !== 0, index counted from 0 (a read outside the
\* buffer gives undefined, which is not 0)
sampleIsSet(pixelBuffer, index) ==
    IF index >= 0 /\ index < Len(pixelBuffer)
    THEN pixelBuffer[index + 1] # 0
    ELSE TRUE

\* variant: green and blue exchanged
channelValue_Swapped(frameSegment, rgb, c) ==
    IF rgb
    THEN CASE c = 0 -> frameSegment.displayRGBValue.r
           [] c = 1 -> frameSegment.displayRGBValue.b
           [] OTHER -> frameSegment.displayRGBValue.g
    ELSE IF IsUndefined(frameSegment.displayValue) THEN 0
         ELSE frameSegment.displayValue.n

\* the value written to channel c of a voxel
channelValue(frameSegment, rgb, c) ==
    IF rgb
    THEN CASE c = 0 -> frameSegment.displayRGBValue.r
           [] c = 1 -> frameSegment.displayRGBValue.g
           [] OTHER -> frameSegment.displayRGBValue.b
    ELSE IF IsUndefined(frameSegment.displayValue) THEN 0
         ELSE frameSegment.displayValue.n

\* one round of 'merge frame buffers': frame f, counted from 0
mergeFrame(buf, f, pixelBuffer, sliceSize, infos, segs, positions, rgb) ==
    LET sliceIndex == findIndexPosPat(positions, infos[f + 1].imagePosPat)
        frameOffset == sliceSize * f
        sliceOffset == sliceSize * sliceIndex
        frameSegment == findSegment(segs, infos[f + 1].refSegmentNumber)
        mul == IF rgb THEN 3 ELSE 1
        set == {l \in 0..(sliceSize - 1) :
                  sampleIsSet(pixelBuffer, frameOffset + l)}
        written == {mul * (sliceOffset + l) + c : l \in set, c \in 0..(mul - 1)}
    IN  IF set # {} /\ (\/ IsUndefined(frameSegment)
                        \/ rgb /\ IsUndefined(frameSegment.displayRGBValue))
        THEN Throw("TypeError")
        ELSE [kind |-> "ok",
              buffer |-> [i \in 1..Len(buf) |->
                            IF (i - 1) \in written
                            THEN channelValue(frameSegment, rgb, (i - 1) % mul)
                            ELSE buf[i]]]

(***************************************************************************)
(* State: one call of MaskFactory.create.                                  *)
(***************************************************************************)
VARIABLES
    input,          \* dataElements and pixelBuffer
    pc,             \* the stage create is at
    result,         \* what create returned or threw
    tagResults,     \* outcomes of the checkTag calls made
    frames, segments, storeAsRGB, spacing, imageOrientationPatient,
    frameInfos, framePosPats, newSpacing, posPats, buffer, f,
    logged,         \* number of logger.warn calls
    warning,        \* MaskFactory.#warning
    stages,         \* history: the stages create has executed, in order
    matrix,         \* a Matrix33 object: #values and #inverse
    product,        \* the last product computed with the matrix
    inversions,     \* history: number of getMatrixInverse calls on the matrix
    returned,       \* history: what the getInverse calls returned, in order
    code,           \* what getOrientationStringLPS(matrix) returned
    given,          \* the inputs given to the two calls of create
    alone,          \* the results of the two calls, each run on its own
    turn,           \* which call of the two is running
    parked,         \* the locals of the call that is not running
    small,          \* two points and what isNotSmall said of their distance
    loop,           \* the locals of the gap-filling loops run step by step
    listeners,      \* ListenerHandler: the listeners of each event type
    dispatch,       \* the fireEvent call that is running or has just ended
    lastRemoved     \* history: the last remove call, until its callback is added

vars == <<input, pc, result, tagResults, frames, segments, storeAsRGB, spacing,
          imageOrientationPatient, frameInfos, framePosPats, newSpacing,
          posPats, buffer, f, logged, warning, stages, matrix, product,
          inversions, returned, code, given, alone, turn, parked, small,
          loop, listeners, dispatch, lastRemoved>>

\* the objects that a call of create does not touch
twoCallsVars == <<given, alone, turn, parked>>
handlerVars == <<listeners, dispatch, lastRemoved>>

\* no ListenerHandler has been created
NoHandler ==
    /\ listeners = Undefined
    /\ dispatch = Undefined
    /\ lastRemoved = Undefined

\* one call of create at a time
OneCall ==
    /\ given = <<>>
    /\ alone = <<>>
    /\ turn = "one"
    /\ parked = Undefined

otherVars ==
    <<matrix, product, inversions, returned, code, twoCallsVars, handlerVars, small, loop>>

Init ==
    /\ matrix = Undefined
    /\ product = Undefined
    /\ inversions = 0
    /\ returned = <<>>
    /\ code = Undefined
    /\ OneCall
    /\ small = Undefined
    /\ NoHandler
    /\ loop = Undefined
    /\ IsInput(input)
    /\ pc = "tags"
    /\ result = Undefined
    /\ tagResults = <<>>
    /\ frames = Undefined
    /\ segments = <<>>
    /\ storeAsRGB = FALSE
    /\ spacing = Undefined
    /\ imageOrientationPatient = Undefined
    /\ frameInfos = <<>>
    /\ framePosPats = <<>>
    /\ newSpacing = Undefined
    /\ posPats = <<>>
    /\ buffer = <<>>
    /\ f = 0
    /\ logged = 0
    /\ warning = Undefined
    /\ stages = <<>>

\* an error aborts the call
Fail(error) == pc' = "done" /\ result' = error /\ stages' = Append(stages, pc)
Goto(stage) == pc' = stage /\ result' = result /\ stages' = Append(stages, pc)

\* variant: an error of checkTag does not leave create
tagCheckThrew_Caught(results) == FALSE

\* the last checkTag call of the loop threw: the error leaves create
tagCheckThrew(results) == results[Len(results)].kind # "ok"

\* check required and supported tags
CheckTags ==
    /\ pc = "tags"
    /\ tagResults' = checkTagsFrom(input.dataElements, 1)
    /\ IF tagCheckThrew(tagResults')
       THEN Fail(tagResults'[Len(tagResults')])
       ELSE Goto("frames")
    /\ UNCHANGED <<input, frames, segments, storeAsRGB, spacing,
                   imageOrientationPatient, frameInfos, framePosPats,
                   newSpacing, posPats, buffer, f, logged, warning, otherVars>>

\* image size and frames
CheckFrames ==
    /\ pc = "frames"
    /\ frames' = IF IsUndefined(input.numberOfFrames) THEN Number(1)
                 ELSE parseInt(input.numberOfFrames.value[1].v)
    /\ IF framesDifferFromBuffer(frames', Len(input.pixelBuffer),
                                 sliceSizeOf(input))
       THEN Fail(Throw("BufferFrameCountMismatch"))
       ELSE Goto("dimension")
    /\ UNCHANGED <<input, tagResults, segments, storeAsRGB, spacing,
                   imageOrientationPatient, frameInfos, framePosPats,
                   newSpacing, posPats, buffer, f, logged, warning, otherVars>>

\* Dimension Organization and Index
DimensionOrganization ==
    /\ pc = "dimension"
    /\ IF getDimensionOrganization(input).kind # "ok"
       THEN Fail(getDimensionOrganization(input))
       ELSE Goto("segments")
    /\ UNCHANGED <<input, tagResults, frames, segments, storeAsRGB, spacing,
                   imageOrientationPatient, frameInfos, framePosPats,
                   newSpacing, posPats, buffer, f, logged, warning, otherVars>>

\* Segment Sequence
SegmentSequence ==
    /\ pc = "segments"
    /\ IF IsUndefined(input.segSequence)
       THEN /\ Fail(Throw("MissingSegmentSequence"))
            /\ UNCHANGED <<segments, storeAsRGB>>
       ELSE /\ segments' = [i \in 1..Len(input.segSequence.value) |->
                              getSegment(input.segSequence.value[i])]
            /\ storeAsRGB' = \E i \in 1..Len(segments') :
                                ~IsUndefined(segments'[i].displayRGBValue)
            /\ Goto("shared")
    /\ UNCHANGED <<input, tagResults, frames, spacing,
                   imageOrientationPatient, frameInfos, framePosPats,
                   newSpacing, posPats, buffer, f, logged, warning, otherVars>>

\* Shared Functional Groups Sequence
SharedFunctionalGroups ==
    /\ pc = "shared"
    /\ LET g == input.shared
           hasIopSeq == ~IsUndefined(g) /\ ~IsUndefined(g.planeOrientationSeq)
           hasMeasSeq == ~IsUndefined(g) /\ ~IsUndefined(g.pixelMeasuresSeq)
           emptyIop == hasIopSeq /\ Len(g.planeOrientationSeq.value) = 0
           emptyMeas == hasMeasSeq /\ Len(g.pixelMeasuresSeq.value) = 0
       IN  /\ imageOrientationPatient' =
                IF hasIopSeq /\ ~emptyIop
                THEN Arr(g.planeOrientationSeq.value[1])
                ELSE Undefined
           /\ spacing' =
                IF hasMeasSeq /\ ~emptyMeas
                THEN getSpacingFromMeasure(g.pixelMeasuresSeq.value[1])
                ELSE Undefined
           /\ logged' = logged + (IF emptyIop THEN 1 ELSE 0)
                               + (IF emptyMeas THEN 1 ELSE 0)
    /\ Goto("perFrame")
    /\ UNCHANGED <<input, tagResults, frames, segments, storeAsRGB,
                   frameInfos, framePosPats, newSpacing, posPats, buffer, f,
                   warning, otherVars>>

\* Per-frame Functional Groups Sequence
PerFrameFunctionalGroups ==
    /\ pc = "perFrame"
    /\ IF IsUndefined(input.perFrame)
       THEN /\ Fail(Throw("MissingPerFrameSequence"))
            /\ UNCHANGED frameInfos
       ELSE IF ~(frames.k = "number"
                 /\ frames.n = Len(input.perFrame.value))
       THEN /\ Fail(Throw("PerFrameFrameCountMismatch"))
            /\ UNCHANGED frameInfos
       ELSE /\ frameInfos' = [j \in 1..Len(input.perFrame.value) |->
                                getSegmentFrameInfo(input.perFrame.value[j])]
            /\ Goto("frameInfos")
    /\ UNCHANGED <<input, tagResults, frames, segments, storeAsRGB, spacing,
                   imageOrientationPatient, framePosPats, newSpacing, posPats,
                   buffer, f, logged, warning, otherVars>>

\* check frame infos, then check spacing and orientation
CheckFrameInfos ==
    /\ pc = "frameInfos"
    /\ LET r == checkFrameInfosFrom(frameInfos, 1,
                  [kind |-> "ok", framePosPats |-> <<>>,
                   imageOrientationPatient |-> imageOrientationPatient,
                   spacing |-> spacing])
       IN  IF r.kind # "ok"
           THEN /\ Fail(r)
                /\ UNCHANGED <<framePosPats, imageOrientationPatient, spacing>>
           ELSE /\ framePosPats' = r.framePosPats
                /\ imageOrientationPatient' = r.imageOrientationPatient
                /\ spacing' = r.spacing
                /\ IF missingSource(r.spacing,
                                    r.imageOrientationPatient).kind # "ok"
                   THEN Fail(missingSource(r.spacing,
                                           r.imageOrientationPatient))
                   ELSE Goto("sort")
    /\ UNCHANGED <<input, tagResults, frames, segments, storeAsRGB,
                   frameInfos, newSpacing, posPats, buffer, f, logged,
                   warning, otherVars>>

orientationMatrix == orientationMatrixOf(imageOrientationPatient.v)

\* orientation, sort positions patient, use calculated spacing
SortPosPats ==
    /\ pc = "sort"
    /\ LET invOrientation == getMatrixInverse(orientationMatrix)
       IN  IF Len(framePosPats) >= 2 /\ IsUndefined(invOrientation)
           THEN /\ Fail(Throw("TypeError"))
                /\ UNCHANGED <<framePosPats, newSpacing>>
           ELSE LET sorted == IF Len(framePosPats) >= 2
                              THEN sortPosPats(invOrientation, framePosPats)
                              ELSE framePosPats
                    geo == getSliceGeometrySpacing(sorted, orientationMatrix)
                IN  /\ framePosPats' = sorted
                    /\ IF geo.kind # "ok"
                       THEN Fail(geo) /\ UNCHANGED newSpacing
                       ELSE /\ newSpacing' =
                                 calculatedSpacing(spacing, geo.value)
                            /\ Goto("gaps")
    /\ UNCHANGED <<input, tagResults, frames, segments, storeAsRGB, spacing,
                   imageOrientationPatient, frameInfos, posPats, buffer, f,
                   logged, warning, otherVars>>

\* add possibly missing posPats
AddMissingPosPats ==
    /\ pc = "gaps"
    /\ LET r == addMissingPosPats(framePosPats,
                  tmpGeometrySpacing(spacing, newSpacing).values,
                  orientationMatrix, 2,
                  [kind |-> "ok", sliceIndex |-> 0,
                   posPats |-> <<framePosPats[1]>>, warn |-> 0])
       IN  IF r.kind # "ok"
           THEN /\ Fail(Throw(r.kind))
                /\ posPats' = r.posPats
                /\ UNCHANGED logged
           ELSE /\ posPats' = r.posPats
                /\ logged' = logged + r.warn
                /\ Goto("buffer")
    /\ UNCHANGED <<input, tagResults, frames, segments, storeAsRGB, spacing,
                   imageOrientationPatient, frameInfos, framePosPats,
                   newSpacing, buffer, f, warning, otherVars>>

numberOfSlices == Len(posPats)
mul == IF storeAsRGB THEN 3 ELSE 1

\* MaskFactory.getWarning
getWarning == warning

\* create output buffer
CreateBuffer ==
    /\ pc = "buffer"
    /\ buffer' = [i \in 1..bufferLength(mul, sliceSizeOf(input),
                                         numberOfSlices) |-> 0]
    /\ f' = 0
    /\ Goto("merge")
    /\ UNCHANGED <<input, tagResults, frames, segments, storeAsRGB, spacing,
                   imageOrientationPatient, frameInfos, framePosPats,
                   newSpacing, posPats, logged, warning, otherVars>>

\* merge frame buffers: one round of the loop over the frames
MergeFrame ==
    /\ pc = "merge"
    /\ f < Len(frameInfos)
    /\ LET r == mergeFrame(buffer, f, input.pixelBuffer, sliceSizeOf(input),
                           frameInfos, segments, posPats, storeAsRGB)
       IN  IF r.kind # "ok"
           THEN Fail(r) /\ UNCHANGED <<buffer, f>>
           ELSE /\ buffer' = r.buffer
                /\ f' = f + 1
                /\ Goto("merge")
    /\ UNCHANGED <<input, tagResults, frames, segments, storeAsRGB, spacing,
                   imageOrientationPatient, frameInfos, framePosPats,
                   newSpacing, posPats, logged, warning, otherVars>>

\* create image and its meta information
CreateImage ==
    /\ pc = "merge"
    /\ f >= Len(frameInfos)
    /\ IF ~input.sopInstanceUID
       THEN /\ pc' = "done"
            /\ stages' = Append(stages, "image")
            /\ result' = Throw("TypeError")
       ELSE /\ pc' = "done"
            /\ stages' = Append(stages, "image")
            /\ result' = [kind |-> "image", buffer |-> buffer,
                          origins |-> posPats, spacing |-> newSpacing,
                          rgb |-> storeAsRGB]
    /\ UNCHANGED <<input, tagResults, frames, segments, storeAsRGB, spacing,
                   imageOrientationPatient, frameInfos, framePosPats,
                   newSpacing, posPats, buffer, f, logged, warning, otherVars>>

Next ==
    \/ CheckTags
    \/ CheckFrames
    \/ DimensionOrganization
    \/ SegmentSequence
    \/ SharedFunctionalGroups
    \/ PerFrameFunctionalGroups
    \/ CheckFrameInfos
    \/ SortPosPats
    \/ AddMissingPosPats
    \/ CreateBuffer
    \/ MergeFrame
    \/ CreateImage

Spec == Init /\ [][Next]_vars

(***************************************************************************)
(* Matrix33 on its own: a matrix, its cached inverse and the products of   *)
(* the two.  No call of create is running.                                 *)
(***************************************************************************)
MatrixEntries == {0 - 1, 0, 1}
\* the number of getInverse calls made on the matrix
MaxCalls == 3
\* new Matrix33(values)
Matrix33(values) ==
    [k |-> "Matrix33", values |-> values, inverse |-> Undefined]

\* Matrix33.getInverse on the object: calculated at first ask
getInverse(m) ==
    IF IsUndefined(m.inverse) THEN getMatrixInverse(m.values) ELSE m.inverse

createVars ==
    <<input, pc, result, tagResults, frames, segments, storeAsRGB, spacing,
      imageOrientationPatient, frameInfos, framePosPats, newSpacing, posPats,
      buffer, f, logged, warning, stages>>

\* the variables of create when no call of create is running
CreateIdle ==
    /\ input = Undefined
    /\ pc = "idle"
    /\ result = Undefined
    /\ tagResults = <<>>
    /\ frames = Undefined
    /\ segments = <<>>
    /\ storeAsRGB = FALSE
    /\ spacing = Undefined
    /\ imageOrientationPatient = Undefined
    /\ frameInfos = <<>>
    /\ framePosPats = <<>>
    /\ newSpacing = Undefined
    /\ posPats = <<>>
    /\ buffer = <<>>
    /\ f = 0
    /\ logged = 0
    /\ warning = Undefined
    /\ stages = <<>>

MatrixInit ==
    /\ \E values \in [1..9 -> MatrixEntries] :
          /\ determinant(values) \in {0 - 1, 0, 1}
          /\ matrix = Matrix33(values)
    /\ product = Undefined
    /\ inversions = 0
    /\ returned = <<>>
    /\ code = Undefined
    /\ OneCall
    /\ small = Undefined
    /\ NoHandler
    /\ loop = Undefined
    /\ CreateIdle

\* the effect of one M.getInverse() call on the object and on the history
CallGetInverse ==
    /\ Len(returned) < MaxCalls
    /\ matrix' = [matrix EXCEPT !.inverse = getInverse(matrix)]
    /\ inversions' = IF IsUndefined(matrix.inverse)
                     THEN inversions + 1 ELSE inversions
    /\ returned' = Append(returned, getInverse(matrix))

\* M.getInverse()
GetInverse ==
    /\ pc = "idle"
    /\ CallGetInverse
    /\ UNCHANGED <<product, code, twoCallsVars, handlerVars, small, loop, createVars>>

\* M.multiply(M.getInverse())
MultiplyByInverse ==
    /\ pc = "idle"
    /\ CallGetInverse
    /\ product' =
          IF IsUndefined(getInverse(matrix))
          THEN [k |-> "outcome", kind |-> "TypeError", of |-> "M x inverse"]
          ELSE [k |-> "outcome", kind |-> "Matrix33", of |-> "M x inverse",
                values |-> multiply(matrix.values,
                                    getInverse(matrix).values)]
    /\ UNCHANGED <<code, twoCallsVars, handlerVars, small, loop, createVars>>

\* M.getInverse().multiply(M)
InverseMultiply ==
    /\ pc = "idle"
    /\ CallGetInverse
    /\ product' =
          IF IsUndefined(getInverse(matrix))
          THEN [k |-> "outcome", kind |-> "TypeError", of |-> "inverse x M"]
          ELSE [k |-> "outcome", kind |-> "Matrix33", of |-> "inverse x M",
                values |-> multiply(getInverse(matrix).values,
                                    matrix.values)]
    /\ UNCHANGED <<code, twoCallsVars, handlerVars, small, loop, createVars>>

MatrixNext == GetInverse \/ MultiplyByInverse \/ InverseMultiply

MatrixSpec == MatrixInit /\ [][MatrixNext]_vars

(***************************************************************************)
(* The orientation code of a matrix.  The entries are integers in units of *)
(* the threshold of getVectorStringLPS, 1 / ThresholdInv.                  *)
(***************************************************************************)
ThresholdInv == 10000
\* const threshold = 0.0001, in the unit of the entries
threshold == 1

\* the loop of getVectorStringLPS from round i, on the magnitudes left
RECURSIVE vectorLetters(_, _, _, _)
vectorLetters(abs, letters, i, orientation) ==
    IF i >= 3 THEN orientation
    ELSE IF abs[1] > threshold /\ abs[1] > abs[2] /\ abs[1] > abs[3]
    THEN vectorLetters(<<0, abs[2], abs[3]>>, letters, i + 1,
                       Append(orientation, letters[1]))
    ELSE IF abs[2] > threshold /\ abs[2] > abs[1] /\ abs[2] > abs[3]
    THEN vectorLetters(<<abs[1], 0, abs[3]>>, letters, i + 1,
                       Append(orientation, letters[2]))
    ELSE IF abs[3] > threshold /\ abs[3] > abs[1] /\ abs[3] > abs[2]
    THEN vectorLetters(<<abs[1], abs[2], 0>>, letters, i + 1,
                       Append(orientation, letters[3]))
    ELSE orientation

\* variant: the letters 'as defined in DICOM'
orientationZ_Dicom(z) == IF z < 0 THEN "F" ELSE "H"

\* const orientationZ
orientationZ(z) == IF z < 0 THEN "I" ELSE "S"

\* getVectorStringLPS: the code as the sequence of its letters
getVectorStringLPS(vector) ==
    LET abs == <<Abs(vector[1]), Abs(vector[2]), Abs(vector[3])>>
        orientationX == IF vector[1] < 0 THEN "R" ELSE "L"
        orientationY == IF vector[2] < 0 THEN "A" ELSE "P"
    IN  vectorLetters(abs, <<orientationX, orientationY,
                             orientationZ(vector[3])>>, 0, <<>>)

\* column col (from 0) of the matrix as a vector
columnOf(m, col) == <<get(m, 0, col), get(m, 1, col), get(m, 2, col)>>

getOrientationStringLPS(m) ==
    getVectorStringLPS(columnOf(m, 0)) \o getVectorStringLPS(columnOf(m, 1))
        \o getVectorStringLPS(columnOf(m, 2))

\* the presets, an entry 1 being ThresholdInv units
getIdentityMat33 ==
    [i \in 1..9 |-> ThresholdInv * <<1, 0, 0, 0, 1, 0, 0, 0, 1>>[i]]
getCoronalMat33 ==
    [i \in 1..9 |-> ThresholdInv * <<1, 0, 0, 0, 0, 1, 0, 0 - 1, 0>>[i]]
getSagittalMat33 ==
    [i \in 1..9 |-> ThresholdInv * <<0, 0, 0 - 1, 1, 0, 0, 0, 0 - 1, 0>>[i]]

\* the largest magnitude of an entry, in units of the threshold
MaxEntry == 3
Entries == (0 - MaxEntry)..MaxEntry
Vectors == Entries \X Entries \X Entries
\* the columns that go with a column drawn from all of Vectors
FewVectors ==
    {<<2, 0, 0>>, <<0, 0 - 2, 0>>, <<0, 1, 3>>, <<2, 2, 0 - 1>>,
     <<1, 0, 0>>, <<0 - 3, 2, 0 - 2>>}

\* the row-major values of the matrix of columns c0, c1, c2
FromColumns(c0, c1, c2) ==
    <<c0[1], c1[1], c2[1], c0[2], c1[2], c2[2], c0[3], c1[3], c2[3]>>

OrientationInit ==
    /\ \/ \E values \in {getIdentityMat33, getCoronalMat33, getSagittalMat33} :
             matrix = Matrix33(values)
       \/ \E v \in Vectors, a, b \in FewVectors :
             \/ matrix = Matrix33(FromColumns(v, a, b))
             \/ matrix = Matrix33(FromColumns(a, v, b))
             \/ matrix = Matrix33(FromColumns(a, b, v))
    /\ code = Undefined
    /\ product = Undefined
    /\ inversions = 0
    /\ returned = <<>>
    /\ OneCall
    /\ small = Undefined
    /\ NoHandler
    /\ loop = Undefined
    /\ CreateIdle

\* getOrientationStringLPS(M)
GetOrientationStringLPS ==
    /\ pc = "idle"
    /\ IsUndefined(code)
    /\ code' = [k |-> "code", letters |-> getOrientationStringLPS(matrix.values)]
    /\ UNCHANGED <<matrix, product, inversions, returned, twoCallsVars, handlerVars,
                   small, loop, createVars>>

OrientationNext == GetOrientationStringLPS

OrientationSpec == OrientationInit /\ [][OrientationNext]_vars

(***************************************************************************)
(* The distance test of gap filling on its own: a frame origin, a point    *)
(* and isNotSmall of their distance.  Coordinates are in the length unit.  *)
(***************************************************************************)
\* the largest coordinate of the point, in units of 10 REAL_WORLD_EPSILON
MaxOffset == 12
DistanceInit ==
    /\ \E x, y, z \in 0..MaxOffset :
          /\ x <= y
          /\ small = [k |-> "asked", frameOrigin |-> <<0, 0, 0>>,
                      point |-> <<x, y, z>>]
    /\ matrix = Undefined
    /\ product = Undefined
    /\ inversions = 0
    /\ returned = <<>>
    /\ code = Undefined
    /\ OneCall
    /\ loop = Undefined
    /\ NoHandler
    /\ CreateIdle

\* isNotSmall(frameOrigin.getDistance(point))
IsNotSmall ==
    /\ pc = "idle"
    /\ small.k = "asked"
    /\ LET t == isNotSmall(getDistance2(small.frameOrigin, small.point))
       IN  /\ small' = [k |-> "answered", frameOrigin |-> small.frameOrigin,
                        point |-> small.point, res |-> t.res]
           /\ logged' = logged + t.warn
    /\ UNCHANGED <<input, pc, result, tagResults, frames, segments,
                   storeAsRGB, spacing, imageOrientationPatient, frameInfos,
                   framePosPats, newSpacing, posPats, buffer, f, warning,
                   stages, matrix, product, inversions, returned, code,
                   twoCallsVars, handlerVars, loop>>

DistanceNext == IsNotSmall

DistanceSpec == DistanceInit /\ [][DistanceNext]_vars

(***************************************************************************)
(* Gap filling on its own, one round of its loops at a time, on any sorted *)
(* list of distinct positions and any slice spacing that is not zero.      *)
(* Coordinates are in the length unit, so two points at most 10 apart are  *)
(* within the widest tolerance.                                            *)
(***************************************************************************)
\* the number of positions a run may push
MaxPositions == 16
GapCoordinates == {0, 20, 25, 40, 60, 90}
GapOffsets == {0, 30}
GapSpacings == {15, 20, 45}
GapPositions == {<<x, 0, z>> : x \in GapOffsets, z \in GapCoordinates}

\* the list is in the order of the sort of create
SortedPosPats(iop, list) ==
    LET inv == getMatrixInverse(orientationMatrixOf(iop))
    IN  sortPosPats(inv, list) = list

GapInit ==
    /\ \E iop \in {Axial, Flipped}, s \in GapSpacings, m \in 2..3 :
          \E list \in [1..m -> GapPositions] :
              /\ \A i, j \in 1..m : i # j => list[i] # list[j]
              /\ SortedPosPats(iop, list)
              /\ imageOrientationPatient = Arr(iop)
              /\ newSpacing = Spacing(<<1, 1, s>>)
              /\ framePosPats = list
              /\ posPats = <<list[1]>>
    /\ loop = [k |-> "loop", g |-> 1, sliceIndex |-> 0, point |-> Undefined,
               dist |-> 0, distPrevious |-> 0]
    /\ pc = "for"
    /\ result = Undefined
    /\ logged = 0
    /\ input = Undefined
    /\ tagResults = <<>>
    /\ frames = Undefined
    /\ segments = <<>>
    /\ storeAsRGB = FALSE
    /\ spacing = Undefined
    /\ frameInfos = <<>>
    /\ buffer = <<>>
    /\ f = 0
    /\ warning = Undefined
    /\ stages = <<>>
    /\ matrix = Undefined
    /\ product = Undefined
    /\ inversions = 0
    /\ returned = <<>>
    /\ code = Undefined
    /\ small = Undefined
    /\ NoHandler
    /\ OneCall

gapUnchanged ==
    <<input, tagResults, frames, segments, storeAsRGB, spacing,
      imageOrientationPatient, frameInfos, framePosPats, newSpacing, buffer,
      f, warning, stages, matrix, product, inversions, returned, code, small,
      twoCallsVars, handlerVars>>

\* the point of the geometry at a slice index
GapPoint(sliceIndex) ==
    indexToWorld(framePosPats[1], newSpacing.values, orientationMatrix,
                 sliceIndex)

\* for (g = 1; g < framePosPats.length; ++g): the start of a round
ForRound ==
    /\ pc = "for"
    /\ loop.g < Len(framePosPats)
    /\ LET sliceIndex == nextSliceIndex(loop.sliceIndex)
           point == GapPoint(sliceIndex)
           dist == getDistance2(framePosPats[loop.g + 1], point)
       IN  loop' = [loop EXCEPT !.sliceIndex = sliceIndex, !.point = point,
                                !.dist = dist, !.distPrevious = dist]
    /\ pc' = "while"
    /\ UNCHANGED <<result, posPats, logged, gapUnchanged>>

\* the for loop ends
ForEnd ==
    /\ pc = "for"
    /\ loop.g >= Len(framePosPats)
    /\ pc' = "done"
    /\ result' = Returned
    /\ UNCHANGED <<loop, posPats, logged, gapUnchanged>>

\* while (isNotSmall(dist)): one round of the body
WhileRound ==
    /\ pc = "while"
    /\ isNotSmall(loop.dist).res
    /\ Len(posPats) < MaxPositions
    /\ posPats' = Append(posPats, loop.point)
    /\ logged' = logged + isNotSmall(loop.dist).warn
    /\ LET sliceIndex == sliceIndexAfterPush(loop.sliceIndex)
           point == GapPoint(sliceIndex)
           dist == getDistance2(framePosPats[loop.g + 1], point)
       IN  /\ loop' = [loop EXCEPT !.sliceIndex = sliceIndex,
                                   !.point = point, !.dist = dist]
           /\ IF dist > loop.distPrevious
              THEN /\ pc' = "done"
                   /\ result' = Throw("IntermediatePositionDivergence")
              ELSE /\ pc' = "while"
                   /\ result' = result
    /\ UNCHANGED gapUnchanged

\* the while loop ends: add frame pos pat
WhileEnd ==
    /\ pc = "while"
    /\ ~isNotSmall(loop.dist).res
    /\ logged' = logged + isNotSmall(loop.dist).warn
    /\ posPats' = Append(posPats,
                         addedPosPat(framePosPats[loop.g + 1], loop.point))
    /\ loop' = [loop EXCEPT !.g = loop.g + 1]
    /\ pc' = "for"
    /\ UNCHANGED <<result, gapUnchanged>>

GapNext == ForRound \/ ForEnd \/ WhileRound \/ WhileEnd

GapSpec == GapInit /\ [][GapNext]_vars

\* the loops are synchronous code: a round that can be taken is taken
FairGapSpec == GapSpec /\ WF_vars(GapNext)

(***************************************************************************)
(* dcmb.utils.ListenerHandler: add, remove and fireEvent.  A callback is   *)
(* known by its name: f does nothing, once removes itself from the type of *)
(* the event it is called with, chain adds f to that type.                 *)
(***************************************************************************)
\* the number of listeners a handler holds, all types together
MaxListeners == 3
EventTypes == {"load", "error"}
Callbacks == {"f", "once", "chain"}

\* listeners[type].push(callback), the array created if not present
add(ls, type, callback) ==
    [ls EXCEPT ![type] = IF IsUndefined(@) THEN Arr(<<callback>>)
                         ELSE Arr(Append(@.v, callback))]

\* array.splice(i, 1), i counted from 0
splice(array, i) ==
    [n \in 1..(Len(array) - 1) |-> IF n <= i THEN array[n] ELSE array[n + 1]]

\* the for loop of remove from index i
RECURSIVE removeFrom(_, _, _)
removeFrom(array, callback, i) ==
    IF i >= Len(array) THEN array
    ELSE IF array[i + 1] = callback
         THEN removeFrom(splice(array, i), callback, i + 1)
         ELSE removeFrom(array, callback, i + 1)

remove(ls, type, callback) ==
    IF IsUndefined(ls[type]) THEN ls
    ELSE [ls EXCEPT ![type] = Arr(removeFrom(@.v, callback, 0))]

\* what a callback does to the handler when it is called with an event
called(callback, ls, type) ==
    CASE callback = "once" -> remove(ls, type, "once")
      [] callback = "chain" -> add(ls, type, "f")
      [] OTHER -> ls

NumListeners(ls) ==
    LET Size(type) == IF IsUndefined(ls[type]) THEN 0 ELSE Len(ls[type].v)
    IN  Size("load") + Size("error")

RemoveCall(type, callback) ==
    [k |-> "remove", type |-> type, callback |-> callback]
\* the history after an add call
AfterAdd(type, callback) ==
    IF lastRemoved = RemoveCall(type, callback) THEN Undefined ELSE lastRemoved

ListenerInit ==
    /\ listeners = [type \in EventTypes |-> Undefined]
    /\ dispatch = Undefined
    /\ lastRemoved = Undefined
    /\ matrix = Undefined
    /\ product = Undefined
    /\ inversions = 0
    /\ returned = <<>>
    /\ code = Undefined
    /\ small = Undefined
    /\ loop = Undefined
    /\ OneCall
    /\ CreateIdle

NotFiring == IsUndefined(dispatch) \/ dispatch.k = "ended"
listenerUnchanged ==
    <<matrix, product, inversions, returned, code, small, loop, twoCallsVars,
      createVars>>

\* handler.add(type, callback)
Add ==
    /\ NotFiring
    /\ NumListeners(listeners) < MaxListeners
    /\ \E type \in EventTypes, callback \in Callbacks :
          /\ listeners' = add(listeners, type, callback)
          /\ lastRemoved' = AfterAdd(type, callback)
    /\ dispatch' = Undefined
    /\ UNCHANGED listenerUnchanged

\* handler.remove(type, callback)
Remove ==
    /\ NotFiring
    /\ \E type \in EventTypes, callback \in Callbacks :
          /\ listeners' = remove(listeners, type, callback)
          /\ lastRemoved' = RemoveCall(type, callback)
    /\ dispatch' = Undefined
    /\ UNCHANGED listenerUnchanged

\* handler.fireEvent(event): the call starts
FireEvent ==
    /\ NotFiring
    /\ \E type \in EventTypes :
          dispatch' =
              IF IsUndefined(listeners[type])
              THEN [k |-> "ended", type |-> type, i |-> 0, atStart |-> <<>>,
                    invoked |-> <<>>, afterRemove |-> FALSE]
              ELSE [k |-> "firing", type |-> type, i |-> 0,
                    atStart |-> listeners[type].v, invoked |-> <<>>,
                    afterRemove |-> FALSE]
    /\ UNCHANGED <<listeners, lastRemoved, listenerUnchanged>>

\* one round of the for loop of fireEvent: listeners[event.type][i](event)
FireListener ==
    /\ ~IsUndefined(dispatch) /\ dispatch.k = "firing"
    /\ dispatch.i < Len(listeners[dispatch.type].v)
    /\ LET callback == listeners[dispatch.type].v[dispatch.i + 1]
       IN  /\ callback = "chain" => NumListeners(listeners) < MaxListeners
           /\ listeners' = called(callback, listeners, dispatch.type)
           /\ lastRemoved' =
                 CASE callback = "once" -> RemoveCall(dispatch.type, "once")
                   [] callback = "chain" -> AfterAdd(dispatch.type, "f")
                   [] OTHER -> lastRemoved
           /\ dispatch' =
                 [dispatch EXCEPT
                    !.i = @ + 1,
                    !.invoked = Append(@, callback),
                    !.afterRemove =
                        @ \/ lastRemoved = RemoveCall(dispatch.type, callback)]
    /\ UNCHANGED listenerUnchanged

\* the for loop of fireEvent ends
FireEnd ==
    /\ ~IsUndefined(dispatch) /\ dispatch.k = "firing"
    /\ dispatch.i >= Len(listeners[dispatch.type].v)
    /\ dispatch' = [dispatch EXCEPT !.k = "ended"]
    /\ UNCHANGED <<listeners, lastRemoved, listenerUnchanged>>

ListenerNext == Add \/ Remove \/ FireEvent \/ FireListener \/ FireEnd

ListenerSpec == ListenerInit /\ [][ListenerNext]_vars

(***************************************************************************)
(* Two calls of create on one factory.  Each call is first run on its own, *)
(* then the two are run with their steps interleaved: the locals of the    *)
(* call that is not running are parked, the logger and the factory's       *)
(* #warning are the same for both.                                         *)
(***************************************************************************)
\* the inputs given to the two calls: the scenario, a rejected tag value, a
\* gap to fill, a gap-filling failure, a widened tolerance (a warning is
\* logged), an RGB volume and a failing merge
ConcurrentInputs ==
    {ScenarioInput,
     TagInput([DefaultStore EXCEPT
                  ![CHOOSE k1 \in TagKeys : TRUE] = Elem(<<Str("BAD")>>)]),
     GapInput(<<<<0, 0>>, <<0, 2>>>>, 1, Axial),
     GapInput(<<<<0, 0>>, <<0, 1>>, <<1, 3>>>>, 1, Flipped),
     ToleranceInput(<<<<0, 0>>, <<1, 0>>, <<2, 1>>>>),
     MergeInput(<<<<<<0, 1>>, FullMask>>, <<<<1, 2>>, FirstOnlyMask>>>>,
                RgbSegments),
     MergeInput(<<<<<<0, 1>>, FullMask>>, <<<<1, 2>>, FirstOnlyMask>>>>,
                MixedSegments)}

\* the locals of a call of create that has not started
Fresh(in) ==
    [input |-> in, pc |-> "tags", result |-> Undefined, tagResults |-> <<>>,
     frames |-> Undefined, segments |-> <<>>, storeAsRGB |-> FALSE,
     spacing |-> Undefined, imageOrientationPatient |-> Undefined,
     frameInfos |-> <<>>, framePosPats |-> <<>>, newSpacing |-> Undefined,
     posPats |-> <<>>, buffer |-> <<>>, f |-> 0, stages |-> <<>>]

\* the locals of the running call
Locals ==
    [input |-> input, pc |-> pc, result |-> result, tagResults |-> tagResults,
     frames |-> frames, segments |-> segments, storeAsRGB |-> storeAsRGB,
     spacing |-> spacing, imageOrientationPatient |-> imageOrientationPatient,
     frameInfos |-> frameInfos, framePosPats |-> framePosPats,
     newSpacing |-> newSpacing, posPats |-> posPats, buffer |-> buffer,
     f |-> f, stages |-> stages]

\* variant: the output buffer is one object that the calls share
ownBuffer_Shared(saved, current) == current

\* const buffer = new pixelBuffer.constructor(...): each call has its own
ownBuffer(saved, current) == saved

\* the running call becomes the one with locals c
Run(c) ==
    /\ input' = c.input
    /\ pc' = c.pc
    /\ result' = c.result
    /\ tagResults' = c.tagResults
    /\ frames' = c.frames
    /\ segments' = c.segments
    /\ storeAsRGB' = c.storeAsRGB
    /\ spacing' = c.spacing
    /\ imageOrientationPatient' = c.imageOrientationPatient
    /\ frameInfos' = c.frameInfos
    /\ framePosPats' = c.framePosPats
    /\ newSpacing' = c.newSpacing
    /\ posPats' = c.posPats
    /\ buffer' = ownBuffer(c.buffer, buffer)
    /\ f' = c.f
    /\ stages' = c.stages

TwoCallsInit ==
    /\ \E in1, in2 \in ConcurrentInputs :
          /\ given = <<in1, in2>>
          /\ input = in1
    /\ alone = <<>>
    /\ turn = "first alone"
    /\ parked = Undefined
    /\ pc = "tags"
    /\ result = Undefined
    /\ tagResults = <<>>
    /\ frames = Undefined
    /\ segments = <<>>
    /\ storeAsRGB = FALSE
    /\ spacing = Undefined
    /\ imageOrientationPatient = Undefined
    /\ frameInfos = <<>>
    /\ framePosPats = <<>>
    /\ newSpacing = Undefined
    /\ posPats = <<>>
    /\ buffer = <<>>
    /\ f = 0
    /\ logged = 0
    /\ warning = Undefined
    /\ stages = <<>>
    /\ matrix = Undefined
    /\ product = Undefined
    /\ inversions = 0
    /\ returned = <<>>
    /\ code = Undefined
    /\ small = Undefined
    /\ NoHandler
    /\ loop = Undefined

matrixVars ==
    <<matrix, product, inversions, returned, code, small, loop, handlerVars>>

\* the first call has ended on its own: the second one is run on its own
StartSecondAlone ==
    /\ turn = "first alone"
    /\ pc = "done"
    /\ alone' = <<result>>
    /\ turn' = "second alone"
    /\ Run(Fresh(given[2]))
    /\ UNCHANGED <<given, parked, logged, warning, matrixVars>>

\* both have ended on their own: the two calls are started together
StartTogether ==
    /\ turn = "second alone"
    /\ pc = "done"
    /\ alone' = Append(alone, result)
    /\ turn' = "first"
    /\ parked' = Fresh(given[2])
    /\ Run(Fresh(given[1]))
    /\ UNCHANGED <<given, logged, warning, matrixVars>>

\* the other call takes the next step
Switch ==
    /\ turn \in {"first", "second"}
    /\ parked.pc # "done"
    /\ turn' = IF turn = "first" THEN "second" ELSE "first"
    /\ parked' = Locals
    /\ Run(parked)
    /\ UNCHANGED <<given, alone, logged, warning, matrixVars>>

TwoCallsNext == Next \/ StartSecondAlone \/ StartTogether \/ Switch

TwoCallsSpec == TwoCallsInit /\ [][TwoCallsNext]_vars

(***************************************************************************)
(* Properties.  The definitions below read the input of the call; they do  *)
(* not use the operators that model create.                                *)
(***************************************************************************)
Executed(stage) == stage \in Range(stages)
Done == pc = "done"
ReturnedImage == Done /\ result.kind = "image"

TagAbsent(d) == IsUndefined(input.dataElements[RequiredDicomSegTags[d].tag])

\* the element's value is in the accepted-value set of the definition: a
\* single value by membership, a sequence by equality up to order
Accepted(tagDefinition, element) ==
    \E i \in 1..Len(tagDefinition.enum) :
        IF IsArray(tagDefinition.enum[i])
        THEN /\ Len(element.value) = Len(tagDefinition.enum[i].v)
             /\ \A x \in Range(element.value) \cup Range(tagDefinition.enum[i].v) :
                   Count(element.value, x) = Count(tagDefinition.enum[i].v, x)
        ELSE /\ Len(element.value) = 1
             /\ element.value[1] = tagDefinition.enum[i]

TagRejected(d) ==
    /\ ~TagAbsent(d)
    /\ ~Accepted(RequiredDicomSegTags[d],
                 input.dataElements[RequiredDicomSegTags[d].tag])

OffendingValue(d) ==
    LET value == input.dataElements[RequiredDicomSegTags[d].tag].value
    IN  IF Len(value) = 1 THEN value[1] ELSE Arr(value)

IsUnsupportedError(r, d) ==
    /\ r.kind = "UnsupportedTagValue"
    /\ r.name = RequiredDicomSegTags[d].name
    /\ r.value = OffendingValue(d)

\* C1: a checkTag call on a definition whose tag is absent from the store
\* throws a MissingTag error naming the tag, and create ends with a
\* MissingTag error whenever a tag of the table is absent.
C1_MissingTagFails ==
    /\ \A d \in 1..Len(tagResults) :
          TagAbsent(d) => /\ tagResults[d].kind = "MissingTag"
                          /\ tagResults[d].name = RequiredDicomSegTags[d].name
    /\ (Done /\ \E d \in 1..NumDefs : TagAbsent(d)) => result.kind = "MissingTag"

\* C2 (as claimed): a checkTag call on a definition whose tag is present with
\* a value outside the accepted set, single or a sequence of any length,
\* throws an UnsupportedTagValue error naming the tag and the value.
C2_UnsupportedValueOnly ==
    \A d \in 1..Len(tagResults) :
        TagRejected(d) => IsUnsupportedError(tagResults[d], d)

\* C2 (amended): such a call always throws; the error is UnsupportedTagValue
\* naming tag and value when the value is single or the accepted values of
\* the definition are sequences, and it is the CannotCompare error when the
\* value sequence has length 0 or 2 and more and the accepted values are
\* single values.
C2_UnsupportedOrCannotCompare ==
    \A d \in 1..Len(tagResults) :
        TagRejected(d) =>
            IF /\ Len(input.dataElements[RequiredDicomSegTags[d].tag].value) # 1
               /\ ~IsArray(RequiredDicomSegTags[d].enum[1])
            THEN tagResults[d].kind = "CannotCompare"
            ELSE IsUnsupportedError(tagResults[d], d)

C2_Witness ==
    /\ Done
    /\ \E d \in 1..Len(tagResults) :
          TagRejected(d) /\ tagResults[d].kind = "CannotCompare"
    /\ result.kind = "CannotCompare"

HasFrames(in) == ~IsUndefined(in.perFrame)
FrameItems(in) == in.perFrame.value
SegmentItems(in) == in.segSequence.value

\* some frame refers to a segment number that no segment carries
UnknownReference(in) ==
    /\ HasFrames(in)
    /\ ~IsUndefined(in.segSequence)
    /\ \E j \in 1..Len(FrameItems(in)) :
          \A i \in 1..Len(SegmentItems(in)) :
              SegmentItems(in)[i].number # FrameItems(in)[j].refSegmentNumber

\* C3: a call that comes to merge the frames of an input with an unknown
\* segment reference fails: it returns no volume, whatever the masks hold.
C3_UnknownReferenceFails ==
    (Done /\ Executed("merge") /\ UnknownReference(input))
        => result.kind # "image"

\* the orientations the call meets, in order: the shared one, then the
\* frames'
SharedOrientation(in) ==
    IF /\ ~IsUndefined(in.shared)
       /\ ~IsUndefined(in.shared.planeOrientationSeq)
       /\ Len(in.shared.planeOrientationSeq.value) # 0
    THEN <<in.shared.planeOrientationSeq.value[1]>>
    ELSE <<>>
RECURSIVE FrameOrientations(_, _)
FrameOrientations(items, j) ==
    IF j > Len(items) THEN <<>>
    ELSE (IF IsUndefined(items[j].imageOrientationPatient) THEN <<>>
          ELSE <<items[j].imageOrientationPatient.v>>)
         \o FrameOrientations(items, j + 1)
OrientationsMet(in) ==
    SharedOrientation(in) \o FrameOrientations(FrameItems(in), 1)

SharedSpacing(in) ==
    IF /\ ~IsUndefined(in.shared)
       /\ ~IsUndefined(in.shared.pixelMeasuresSeq)
       /\ Len(in.shared.pixelMeasuresSeq.value) # 0
    THEN <<in.shared.pixelMeasuresSeq.value[1]>>
    ELSE <<>>
RECURSIVE FrameSpacings(_, _)
FrameSpacings(items, j) ==
    IF j > Len(items) THEN <<>>
    ELSE (IF IsUndefined(items[j].spacing) THEN <<>>
          ELSE <<items[j].spacing.values>>)
         \o FrameSpacings(items, j + 1)
SpacingsMet(in) == SharedSpacing(in) \o FrameSpacings(FrameItems(in), 1)

\* a later orientation differs from the first in at least one component
OrientationDiffers(in) ==
    \E n \in 2..Len(OrientationsMet(in)) :
        OrientationsMet(in)[n] # OrientationsMet(in)[1]
SpacingDiffers(in) ==
    \E n \in 2..Len(SpacingsMet(in)) : SpacingsMet(in)[n] # SpacingsMet(in)[1]

\* C4: a call that comes to check the frames of an input in which a later
\* orientation differs from the first one found in at least one component
\* (the first one having row and column cosines that are not parallel, a
\* spacing being supplied and the spacings agreeing) ends with the
\* MultiOrientation error.
C4_DifferingOrientationFails ==
    (Done /\ Executed("frameInfos") /\ OrientationDiffers(input)
          /\ OrientationsMet(input)[1] # Degenerate
          /\ SpacingsMet(input) # <<>> /\ ~SpacingDiffers(input))
        => result.kind = "MultiOrientation"

FramePositions(in) ==
    {FrameItems(in)[j].imagePosPat : j \in 1..Len(FrameItems(in))}
SliceCoordinates(in) == {p[3] : p \in FramePositions(in)}
Max(S) == CHOOSE x \in S : \A y \in S : x >= y
\* the smallest distance between two frame positions along z
SmallestGap(in) ==
    Min({a - b : <<a, b>> \in {q \in SliceCoordinates(in) \X SliceCoordinates(in) :
                                q[1] > q[2]}})
DeclaredSliceSpacing(in) == in.shared.pixelMeasuresSeq.value[1][3]
\* segment 1 of value 5 on full masks, the axial orientation and a spacing in
\* the shared group only
AxialOnZ(in) ==
    /\ in.dataElements = DefaultStore
    /\ in.columns = NCols /\ in.rows = 1
    /\ in.segSequence = Elem(<<Scalar(1, 5)>>)
    /\ ~IsUndefined(in.shared)
    /\ in.shared.planeOrientationSeq = Elem(<<Axial>>)
    /\ ~IsUndefined(in.shared.pixelMeasuresSeq)
    /\ Len(in.shared.pixelMeasuresSeq.value) = 1
    /\ HasFrames(in)
    /\ \A j \in 1..Len(FrameItems(in)) :
          /\ FrameItems(in)[j].refSegmentNumber = 1
          /\ IsUndefined(FrameItems(in)[j].imageOrientationPatient)
          /\ IsUndefined(FrameItems(in)[j].spacing)
    /\ \A i \in 1..Len(in.pixelBuffer) : in.pixelBuffer[i] = 1

\* position p is within 100 REAL_WORLD_EPSILON of q, the widest tolerance of
\* the gap filling
WithinTolerance(p, q) ==
    ((p[1] - q[1]) * (p[1] - q[1]) + (p[2] - q[2]) * (p[2] - q[2])
     + (p[3] - q[3]) * (p[3] - q[3])) * UnitsPerEpsilonInv * UnitsPerEpsilonInv
        <= 100 * 100

SampleSet(in, j, l) ==
    in.pixelBuffer[in.columns * in.rows * (j - 1) + l] # 0
\* the frames that mark sample l of the slice at origin
FramesMarking(in, origin, l) ==
    {j \in 1..Len(FrameItems(in)) :
        FrameItems(in)[j].imagePosPat = origin /\ SampleSet(in, j, l)}
SegmentItemOf(in, j) ==
    LET hits == {i \in 1..Len(SegmentItems(in)) :
                   SegmentItems(in)[i].number = FrameItems(in)[j].refSegmentNumber}
    IN  SegmentItems(in)[Min(hits)]
SomeRgbSegment(in) ==
    \E i \in 1..Len(SegmentItems(in)) :
        ~IsUndefined(SegmentItems(in)[i].displayRGBValue)
SamplesPerSlice(in) == in.columns * in.rows

C7_BufferSizeAndZeros ==
    ReturnedImage =>
        LET channels == IF SomeRgbSegment(input) THEN 3 ELSE 1
            size == SamplesPerSlice(input)
            synthesized == {s \in 1..Len(result.origins) :
                              result.origins[s] \notin FramePositions(input)}
        IN  /\ Len(result.buffer) = size * Len(result.origins) * channels
            /\ \A p \in FramePositions(input) :
                  Cardinality({s \in 1..Len(result.origins) :
                                 result.origins[s] = p}) = 1
            /\ Len(result.origins)
                  = Cardinality(FramePositions(input)) + Cardinality(synthesized)
            /\ \A s \in 1..Len(result.origins), l \in 1..size,
                  c \in 0..(channels - 1) :
                  FramesMarking(input, result.origins[s], l) = {} =>
                      result.buffer[channels * (size * (s - 1) + l - 1) + c + 1] = 0
            /\ \A s \in synthesized, i \in 1..(size * channels) :
                  result.buffer[channels * size * (s - 1) + i] = 0

C7_Witness ==
    /\ ReturnedImage
    /\ \E s \in 1..Len(result.origins) :
          result.origins[s] \notin FramePositions(input)
    /\ \E i \in 1..Len(result.buffer) : result.buffer[i] # 0

RgbOf(in, j, c) ==
    CASE c = 0 -> SegmentItemOf(in, j).displayRGBValue.r
      [] c = 1 -> SegmentItemOf(in, j).displayRGBValue.g
      [] OTHER -> SegmentItemOf(in, j).displayRGBValue.b

\* slice (from 0) of frame j in the final position list
SliceOf(j) ==
    Min({s \in 1..Len(posPats) :
           posPats[s] = FrameItems(input)[j].imagePosPat}) - 1

\* the round of the merge loop for frame f + 1 in RGB mode sets, for every
\* set sample l of the frame, the entries 3 * (o + l) + c to r, g and b of
\* the frame's segment and leaves every other entry as it was
C8_MergeRound ==
    (pc = "merge" /\ f' = f + 1 /\ SomeRgbSegment(input)) =>
        LET j == f + 1
            size == SamplesPerSlice(input)
            o == size * SliceOf(j)
        IN  /\ Len(buffer') = Len(buffer)
            /\ \A i \in 0..(Len(buffer) - 1) :
                  buffer'[i + 1] =
                      IF \E l \in 0..(size - 1) :
                            SampleSet(input, j, l + 1) /\ i \div 3 = o + l
                      THEN RgbOf(input, j, i % 3)
                      ELSE buffer[i + 1]

C8_UnmarkedVoxelsZero ==
    (ReturnedImage /\ SomeRgbSegment(input)) =>
        \A s \in 1..Len(result.origins), l \in 1..SamplesPerSlice(input),
           c \in 0..2 :
            FramesMarking(input, result.origins[s], l) = {} =>
                result.buffer[3 * (SamplesPerSlice(input) * (s - 1) + l - 1)
                              + c + 1] = 0

\* C8: in RGB mode every round of the merge loop writes exactly the three
\* entries 3*(o+l), 3*(o+l)+1, 3*(o+l)+2 of each set sample l of its frame,
\* with the r, g, b of the frame's segment, and in the returned volume every
\* entry of a voxel that no set sample maps to is 0.
C8_RgbTriples == [][C8_MergeRound]_vars /\ []C8_UnmarkedVoxelsZero

\* one sample set in the whole input, its segment (255,0,0): the volume
\* holds 255,0,0 at that voxel and 0 elsewhere
C8_Witness ==
    /\ ReturnedImage
    /\ SomeRgbSegment(input)
    /\ Cardinality({i \in 1..Len(input.pixelBuffer) : input.pixelBuffer[i] # 0}) = 1
    /\ \E v \in 0..(Len(result.buffer) \div 3 - 1) :
          /\ result.buffer[3 * v + 1] = 255
          /\ result.buffer[3 * v + 2] = 0
          /\ result.buffer[3 * v + 3] = 0
          /\ \A i \in 1..Len(result.buffer) :
                i \notin {3 * v + 1, 3 * v + 2, 3 * v + 3} => result.buffer[i] = 0

\* C9: a call that comes to merge the frames of an input with an RGB
\* segment, all references known, returns a volume in which every set
\* sample of every frame has left a three-component value.
C9_RgbModeCompletes ==
    (Done /\ Executed("merge") /\ SomeRgbSegment(input)
          /\ ~UnknownReference(input) /\ input.sopInstanceUID) =>
        /\ result.kind = "image"
        /\ Len(result.buffer)
              = 3 * SamplesPerSlice(input) * Len(result.origins)

DeclaredFrames(in) ==
    IF IsUndefined(in.numberOfFrames) THEN Number(1)
    ELSE parseInt(in.numberOfFrames.value[1].v)
\* the declared number differs from pixelBuffer.length / (rows * columns)
BufferDiffers(in) ==
    \/ DeclaredFrames(in).k # "number"
    \/ SamplesPerSlice(in) = 0
    \/ DeclaredFrames(in).n * SamplesPerSlice(in) # Len(in.pixelBuffer)
\* the declared number differs from the length of the per-frame sequence
PerFrameDiffers(in) ==
    /\ HasFrames(in)
    /\ \/ DeclaredFrames(in).k # "number"
       \/ DeclaredFrames(in).n # Len(FrameItems(in))

\* C10: when the declared number of frames differs from the buffer's or
\* from the per-frame sequence's, create returns no volume and never comes
\* to the frame checks or the assembly; the comparison with the buffer,
\* once made, ends the call with the buffer mismatch error and the one with
\* the per-frame sequence with the per-frame mismatch error; every index
\* the merge reads lies inside the pixel buffer.
C10_FrameCountMismatchFails ==
    /\ (BufferDiffers(input) \/ PerFrameDiffers(input)) =>
          /\ pc \notin {"frameInfos", "sort", "gaps", "buffer", "merge"}
          /\ ~Executed("frameInfos")
          /\ Done => result.kind # "image"
    /\ (BufferDiffers(input) /\ Executed("frames")) =>
          Done /\ result.kind = "BufferFrameCountMismatch"
    /\ (PerFrameDiffers(input) /\ Executed("perFrame")) =>
          Done /\ result.kind = "PerFrameFrameCountMismatch"
    /\ pc = "merge" =>
          \A j \in 1..Len(frameInfos), l \in 1..SamplesPerSlice(input) :
              SamplesPerSlice(input) * (j - 1) + l <= Len(input.pixelBuffer)

C10_Witness ==
    /\ Done
    /\ ~BufferDiffers(input)
    /\ PerFrameDiffers(input)
    /\ result.kind = "PerFrameFrameCountMismatch"

(***************************************************************************)
(* Dimension organization.                                                 *)
(***************************************************************************)
DimensionErrors ==
    {"DimensionOrganizationLength", "DimensionIndexLength",
     "UnknownDimensionOrganization", "NonImagePositionLastIndex"}
\* getDimensionOrganization was called and returned
DimensionSucceeded ==
    Executed("dimension") /\ ~(Done /\ result.kind \in DimensionErrors)
\* one organization; no index sequence, or two indices of which the second
\* one points to the image position
OneOrganizationImagePositionLast(in) ==
    /\ ~IsUndefined(in.orgSq)
    /\ Len(in.orgSq.value) = 1
    /\ \/ IsUndefined(in.indexSq)
       \/ /\ Len(in.indexSq.value) = 2
          /\ in.indexSq.value[2].pointer = "(0020,0032)"
\* every index is of the organization of the organization sequence
IndicesOfTheOrganization(in) ==
    IsUndefined(in.indexSq) \/
        \A i \in 1..Len(in.indexSq.value) :
            in.indexSq.value[i].org = in.orgSq.value[1]

\* C11 (as claimed): getDimensionOrganization returns if and only if there
\* is exactly one organization and the index sequence is absent or has two
\* entries, the second one pointing to the image position; otherwise it
\* fails with a dimension organization error.
C11_LengthAndPointerOnly ==
    Executed("dimension") =>
        /\ DimensionSucceeded <=> OneOrganizationImagePositionLast(input)
        /\ ~DimensionSucceeded => result.kind \in DimensionErrors

\* C11 (amended): getDimensionOrganization returns if and only if, moreover,
\* every index entry carries the UID of the organization; an index of
\* another organization fails with the unknown organization error, a wrong
\* length or last pointer with the length and pointer errors.
C11_LengthPointerAndOrganization ==
    Executed("dimension") =>
        /\ DimensionSucceeded <=>
              (OneOrganizationImagePositionLast(input)
                  /\ IndicesOfTheOrganization(input))
        /\ (OneOrganizationImagePositionLast(input)
              /\ ~IndicesOfTheOrganization(input)) =>
                  result.kind = "UnknownDimensionOrganization"
        /\ ~OneOrganizationImagePositionLast(input) =>
              result.kind \in DimensionErrors

C11_Witness ==
    /\ Done
    /\ OneOrganizationImagePositionLast(input)
    /\ ~IsUndefined(input.indexSq)
    /\ ~IndicesOfTheOrganization(input)
    /\ result.kind = "UnknownDimensionOrganization"

(***************************************************************************)
(* Segment sequence.                                                       *)
(***************************************************************************)
NoSegments(in) ==
    IsUndefined(in.segSequence) \/ Len(SegmentItems(in)) = 0

\* C12: a call that comes to read the segment sequence of an input where it
\* is absent or has no entry ends with the missing segment sequence error,
\* and no volume is assembled from an empty segment list.
C12_EmptySegmentSequenceFails ==
    /\ (Executed("segments") /\ IsUndefined(input.segSequence)) =>
          Done /\ result.kind = "MissingSegmentSequence"
    /\ (pc \in {"buffer", "merge"} \/ Executed("buffer")) =>
          ~NoSegments(input)

(***************************************************************************)
(* Missing spacing and orientation.                                        *)
(***************************************************************************)
\* two lists of cosines with the same values, each as many times
SameCosines(a, b) ==
    \A x \in Range(a) \cup Range(b) : Count(a, x) = Count(b, x)
\* a later orientation is not a reordering of the first one
OrientationConflict(in) ==
    \E n \in 2..Len(OrientationsMet(in)) :
        ~SameCosines(OrientationsMet(in)[n], OrientationsMet(in)[1])
ScanCompleted ==
    /\ Done
    /\ Executed("frameInfos")
    /\ result.kind \notin {"MultiOrientation", "MultiResolution"}

\* C13 (as claimed): when the scan of the frames completes, an input where
\* no source supplies a spacing ends with the missing spacing error and an
\* input where no source supplies an orientation ends with the missing
\* orientation error; a value from any one source avoids the error.
C13_EachMissingSourceHasItsError ==
    ScanCompleted =>
        /\ result.kind = "MissingSpacing" <=> SpacingsMet(input) = <<>>
        /\ result.kind = "MissingOrientation" <=> OrientationsMet(input) = <<>>

\* C13 (amended): the spacing is looked at first.  The call ends with the
\* missing spacing error exactly when no source supplies a spacing and the
\* scan met no conflicting orientations, and with the missing orientation
\* error exactly when no source supplies an orientation, some source (the
\* shared group or any one frame) supplies a spacing and the spacings agree.
C13_SpacingLookedAtFirst ==
    (Done /\ Executed("frameInfos")) =>
        /\ result.kind = "MissingSpacing" <=>
              (SpacingsMet(input) = <<>> /\ ~OrientationConflict(input))
        /\ result.kind = "MissingOrientation" <=>
              /\ OrientationsMet(input) = <<>>
              /\ SpacingsMet(input) # <<>>
              /\ ~SpacingDiffers(input)

C13_Witness ==
    /\ Done
    /\ Executed("frameInfos")
    /\ Len(FrameItems(input)) >= 2
    /\ SpacingsMet(input) = <<>>
    /\ OrientationsMet(input) = <<>>
    /\ result.kind = "MissingSpacing"

(***************************************************************************)
(* Ordered slices.                                                         *)
(***************************************************************************)
RowOf(iop) == <<iop[1], iop[2], iop[3]>>
ColumnOf(iop) == <<iop[4], iop[5], iop[6]>>
Dot(a, b) == a[1] * b[1] + a[2] * b[2] + a[3] * b[3]
\* the slice normal: row cosines x column cosines
NormalOf(iop) ==
    LET r == RowOf(iop)
        c == ColumnOf(iop)
    IN  <<r[2] * c[3] - r[3] * c[2], r[3] * c[1] - r[1] * c[3],
          r[1] * c[2] - r[2] * c[1]>>
\* unit cosines at a right angle: the inverse of the orientation matrix is
\* its transpose, and the sort key of a position is normal . position
Orthonormal(iop) ==
    /\ Dot(RowOf(iop), RowOf(iop)) = 1
    /\ Dot(ColumnOf(iop), ColumnOf(iop)) = 1
    /\ Dot(RowOf(iop), ColumnOf(iop)) = 0
SortKey(iop, pos) == Dot(NormalOf(iop), pos)
\* the orientation the call uses: the first one it meets
UsedOrientation(in) == OrientationsMet(in)[1]
OnNormal(iop, first, distance) ==
    <<first[1] + distance * NormalOf(iop)[1],
      first[2] + distance * NormalOf(iop)[2],
      first[3] + distance * NormalOf(iop)[3]>>
\* the distinct positions are first, first + s n, first + 2 s n, ... for
\* the normal n and a step s
UniformOnNormal(in) ==
    \E first \in FramePositions(in), s \in {Mm(z) : z \in 1..MaxZ} :
        FramePositions(in) =
            {OnNormal(UsedOrientation(in), first, k * s) :
                k \in 0..(Cardinality(FramePositions(in)) - 1)}
InKeyOrder(iop, origins) ==
    \A i, j \in 1..Len(origins) :
        i < j => SortKey(iop, origins[i]) < SortKey(iop, origins[j])
UniformCase ==
    /\ Executed("sort")
    /\ Orthonormal(UsedOrientation(input))
    /\ UniformOnNormal(input)

\* C14: for an input that passes the frame checks and whose N distinct
\* positions are evenly spaced on a line along the slice normal, whatever
\* the order of the frames and the number of frames per position, the
\* position stages do not fail, the final positions are the N distinct
\* positions in strictly ascending order of the sort key, and a returned
\* volume has exactly these N slice origins.
C14_UniformPositionsGiveNSlices ==
    /\ (UniformCase /\ Done) =>
          /\ result.kind \notin {"ZeroSliceSpacing",
                                 "IntermediatePositionDivergence"}
          /\ result.kind = "TypeError" => Executed("merge")
    /\ (UniformCase /\ Executed("gaps")) =>
          /\ Len(posPats) = Cardinality(FramePositions(input))
          /\ Range(posPats) = FramePositions(input)
          /\ InKeyOrder(UsedOrientation(input), posPats)
    /\ (UniformCase /\ ReturnedImage) => result.origins = posPats

C14_Witness ==
    /\ ReturnedImage
    /\ UniformCase
    /\ Cardinality(FramePositions(input)) = 3
    /\ UsedOrientation(input) = Flipped
    /\ ~InKeyOrder(UsedOrientation(input),
                   [j \in 1..Len(FrameItems(input)) |->
                       FrameItems(input)[j].imagePosPat])

(***************************************************************************)
(* Gap filling.                                                            *)
(***************************************************************************)
\* the slice spacing the call uses from the sort on
SliceSpacing == newSpacing.values[3]
\* each sorted position is the one before, moved by one slice spacing along
\* the normal
OneSpacingApart ==
    \A i \in 1..(Len(framePosPats) - 1) :
        framePosPats[i + 1] =
            OnNormal(UsedOrientation(input), framePosPats[i], SliceSpacing)

\* C15: when every sorted real position is one slice spacing along the
\* normal from the one before, gap filling does not fail and adds nothing:
\* the final positions are the sorted positions, element for element.
C15_UniformInputUnchanged ==
    (Executed("gaps") /\ OneSpacingApart) =>
        /\ pc # "done" \/ result.kind # "IntermediatePositionDivergence"
        /\ posPats = framePosPats

C15_Witness ==
    /\ pc = "buffer"
    /\ OneSpacingApart
    /\ Len(framePosPats) = 3
    /\ SliceSpacing = Mm(2)
    /\ posPats = framePosPats

\* the final position at index i is not a position of a frame
Inserted(i) == posPats[i] \notin FramePositions(input)

\* C16: after gap filling, every inserted position is the first sorted
\* position moved along the slice normal by k times the slice spacing of
\* the final spacing, with k >= 1 the number of positions before it in the
\* final list, so k grows from one inserted position to the next.
C16_InsertedOnTheNormalLine ==
    pc \in {"buffer", "merge"} \/ ReturnedImage =>
        \A i \in 1..Len(posPats) :
            Inserted(i) =>
                /\ i - 1 >= 1
                /\ posPats[i] = OnNormal(UsedOrientation(input), posPats[1],
                                         (i - 1) * SliceSpacing)
                /\ posPats[1] = framePosPats[1]

C16_Witness ==
    /\ pc = "buffer"
    /\ UsedOrientation(input) = Flipped
    /\ SliceSpacing = Mm(1)
    /\ SharedSpacing(input) = <<MmAll(<<1, 1, 2>>)>>
    /\ Len(posPats) >= 4
    /\ Inserted(2) /\ Inserted(3) /\ ~Inserted(4)

\* the index in the sorted positions of the position the filling is moving
\* to after the final position at index i was pushed
RECURSIVE TargetAfter(_)
TargetAfter(i) ==
    IF i = 1 THEN 2
    ELSE IF /\ TargetAfter(i - 1) <= Len(framePosPats)
            /\ posPats[i] = framePosPats[TargetAfter(i - 1)]
         THEN TargetAfter(i - 1) + 1
         ELSE TargetAfter(i - 1)
\* the position at index i was pushed by the while loop
Intermediate(i) == i >= 2 /\ TargetAfter(i) = TargetAfter(i - 1)
SquaredDistance(p, q) ==
    Dot(<<p[1] - q[1], p[2] - q[2], p[3] - q[3]>>,
        <<p[1] - q[1], p[2] - q[2], p[3] - q[3]>>)

\* C17: whether gap filling completes or fails, an intermediate position is
\* pushed after another one of the same gap only if it is strictly nearer
\* to the next real position: a step that does not come nearer ends the
\* call before anything more is pushed.
C17_NoPushAfterNonDecreasingStep ==
    Executed("gaps") =>
        \A i \in 2..(Len(posPats) - 1) :
            (Intermediate(i) /\ Intermediate(i + 1)) =>
                SquaredDistance(framePosPats[TargetAfter(i)], posPats[i + 1])
                    < SquaredDistance(framePosPats[TargetAfter(i)], posPats[i])

(***************************************************************************)
(* Tolerance tiers and the warning.                                        *)
(***************************************************************************)
\* where the position at index i of the final list lies when it is on the
\* line of the first position at a whole number of slice spacings
OnGrid(i) ==
    OnNormal(UsedOrientation(input), posPats[1], (i - 1) * SliceSpacing)
\* gap filling has completed and has taken a real position for the grid
\* position next to it: the distance it accepted is above the base epsilon
WidenedToleranceUsed ==
    /\ Executed("gaps")
    /\ pc # "done" \/ result.kind # "IntermediatePositionDivergence"
    /\ \E i \in 1..Len(posPats) : posPats[i] # OnGrid(i)

\* C18: a call whose gap filling used a widened tolerance still returns a
\* volume, and getWarning() then gives a defined warning.
C18_WidenedToleranceIsWarned ==
    (Done /\ WidenedToleranceUsed) =>
        /\ ReturnedImage
        /\ ~IsUndefined(getWarning)

(***************************************************************************)
(* Matrix inverse.                                                         *)
(***************************************************************************)
Identity == <<1, 0, 0, 0, 1, 0, 0, 0, 1>>
\* the determinant by the rule of Sarrus
Sarrus(m) ==
    m[1] * m[5] * m[9] + m[2] * m[6] * m[7] + m[3] * m[4] * m[8]
    - m[3] * m[5] * m[7] - m[2] * m[4] * m[9] - m[1] * m[6] * m[8]

\* C19: for a matrix of determinant 1 or -1, M.multiply(M.getInverse()) and
\* M.getInverse().multiply(M) are computed and are the identity matrix.
C19_InverseProductIsIdentity ==
    (~IsUndefined(product) /\ Sarrus(matrix.values) # 0) =>
        /\ product.kind = "Matrix33"
        /\ product.values = Identity

C19_Witness ==
    /\ ~IsUndefined(product)
    /\ product.of = "inverse x M"
    /\ Sarrus(matrix.values) = 0 - 1
    /\ matrix.inverse.values # matrix.values
    /\ \E n \in 1..9 : matrix.values[n] # matrix.values[3 * ((n - 1) % 3)
                                                       + (n - 1) \div 3 + 1]
    /\ product.values = Identity

(***************************************************************************)
(* Degenerate orientation.                                                 *)
(***************************************************************************)
\* the orientation matrix has the cosines and their cross product as its
\* columns, so its determinant is the squared length of the cross product
ZeroDeterminant(iop) == Dot(NormalOf(iop), NormalOf(iop)) = 0

\* C20: a call that comes to the sort with an orientation whose matrix has
\* determinant zero returns no volume, whatever the number of distinct
\* positions.
C20_DegenerateOrientationFails ==
    (Done /\ Executed("sort") /\ ZeroDeterminant(UsedOrientation(input))) =>
        result.kind # "image"

(***************************************************************************)
(* Matrix33: the cached inverse.                                           *)
(***************************************************************************)
\* C21: over any sequence of getInverse calls on one matrix, invertible or
\* not, getMatrixInverse runs at most once and every call returns the same
\* result.
C21_InversionComputedOnce ==
    /\ inversions <= 1
    /\ \A i \in 1..Len(returned) : returned[i] = returned[1]

(***************************************************************************)
(* The orientation code.                                                   *)
(***************************************************************************)
Magnitude(v, axis) == IF v[axis] < 0 THEN 0 - v[axis] ELSE v[axis]

\* the letter of an axis of the vector: x R or L, y A or P, z I or S
AxisLetter(v, axis) ==
    IF v[axis] < 0 THEN <<"R", "A", "I">>[axis] ELSE <<"L", "P", "S">>[axis]

\* the axis of greatest magnitude, ties resolved in the order x, y, z
DominantAxis(v) ==
    CHOOSE a \in 1..3 :
        /\ \A b \in 1..3 : Magnitude(v, b) <= Magnitude(v, a)
        /\ \A b \in 1..(a - 1) : Magnitude(v, b) < Magnitude(v, a)

HasComponentAboveThreshold(v) == \E a \in 1..3 : Magnitude(v, a) > threshold

Column(col) == <<matrix.values[col], matrix.values[3 + col],
                 matrix.values[6 + col]>>

\* C22 (as claimed): when every column has a component above the threshold,
\* the code is three letters, the letter of the dominant axis of each column
\* in column order.
C22_OneLetterPerColumn ==
    (~IsUndefined(code) /\ \A col \in 1..3 : HasComponentAboveThreshold(Column(col)))
        => code.letters = [col \in 1..3 |->
                              AxisLetter(Column(col), DominantAxis(Column(col)))]

\* an axis gives a letter when its magnitude is above the threshold and no
\* two axes share a magnitude that is at least as large
GivesLetter(v, axis) ==
    /\ Magnitude(v, axis) > threshold
    /\ \A b, c \in 1..3 :
          (b # c /\ Magnitude(v, b) = Magnitude(v, c))
              => Magnitude(v, b) < Magnitude(v, axis)

\* the letters of a column: those of the axes that give one, by decreasing
\* magnitude
ColumnLetters(v) ==
    LET axes == {a \in 1..3 : GivesLetter(v, a)}
        Rank(a) == Cardinality({b \in axes : Magnitude(v, b) > Magnitude(v, a)}) + 1
    IN  [n \in 1..Cardinality(axes) |->
            AxisLetter(v, CHOOSE a \in axes : Rank(a) = n)]

\* C22 (amended): the code is the letters of column 0, then of column 1, then
\* of column 2, where a column contributes between zero and three letters:
\* one for each axis, by decreasing magnitude, as long as the magnitude is
\* above the threshold and strictly greater than that of both other axes
\* left; a tie ends the column.  A column with one non-zero component above
\* the threshold gives one letter, so the identity, coronal and sagittal
\* presets give LPS, LIP and PIR.
C22_LettersByDecreasingMagnitude ==
    ~IsUndefined(code) =>
        /\ code.letters = ColumnLetters(Column(1)) \o ColumnLetters(Column(2))
                            \o ColumnLetters(Column(3))
        /\ matrix.values = getIdentityMat33 => code.letters = <<"L", "P", "S">>
        /\ matrix.values = getCoronalMat33 => code.letters = <<"L", "I", "P">>
        /\ matrix.values = getSagittalMat33 => code.letters = <<"P", "I", "R">>

\* a code of four letters: column 0 gives two (3 against 2 against 0),
\* column 1 one, and column 2 one before its tie at 2
C22_Witness ==
    /\ ~IsUndefined(code)
    /\ Column(1) = <<0 - 3, 0, 2>>
    /\ Column(2) = <<0, 0 - 2, 0>>
    /\ Column(3) = <<0 - 3, 2, 0 - 2>>
    /\ code.letters = <<"R", "S", "A", "R">>

(***************************************************************************)
(* The order of the stages.                                                *)
(***************************************************************************)
StageOrder ==
    <<"tags", "frames", "dimension", "segments", "shared", "perFrame",
      "frameInfos", "sort", "gaps", "buffer", "merge", "image">>

SomeTagRejected == \E d \in 1..NumDefs : TagRejected(d)
FirstTagRejected == Min({d \in 1..NumDefs : TagRejected(d)})
DimensionAccepted(in) ==
    OneOrganizationImagePositionLast(in) /\ IndicesOfTheOrganization(in)

\* the first stage that the input fails, of the first four
FirstFailingStage ==
    IF SomeTagRejected THEN "tags"
    ELSE IF BufferDiffers(input) THEN "frames"
    ELSE IF ~DimensionAccepted(input) THEN "dimension"
    ELSE IF IsUndefined(input.segSequence) THEN "segments"
    ELSE "none"

StageIndex(stage) == CHOOSE i \in 1..Len(StageOrder) : StageOrder[i] = stage

Together == turn \in {"first", "second"}
Running == IF turn \in {"first", "first alone"} THEN 1 ELSE 2

DefinitionNames == {RequiredDicomSegTags[d].name : d \in 1..NumDefs}

\* the element that holds a default value: the value itself when it is a
\* sequence, the one-value sequence otherwise
Holding(default) ==
    IF default.k = "array" THEN Elem(default.v) ELSE Elem(<<default>>)

\* the store holds the default of every definition under the definition's
\* tag key
HoldsDefaults(store) ==
    /\ DOMAIN store = {RequiredDicomSegTags[d].tag : d \in 1..NumDefs}
    /\ \A d \in 1..NumDefs :
          store[RequiredDicomSegTags[d].tag] =
              Holding(getDefaultDicomSegJson[RequiredDicomSegTags[d].name])

\* C25: getDefaultDicomSegJson has one entry per definition, the first
\* accepted value under the definition's name; no two definitions of one
\* tag key have different defaults; and on a store that holds the defaults
\* the loop of create calls checkTag on every definition and every call
\* returns.
C25_DefaultsPassEveryCheck ==
    /\ DOMAIN getDefaultDicomSegJson = DefinitionNames
    /\ Cardinality(DefinitionNames) = NumDefs
    /\ \A d \in 1..NumDefs :
          getDefaultDicomSegJson[RequiredDicomSegTags[d].name] =
              RequiredDicomSegTags[d].enum[1]
    /\ \A d1, d2 \in 1..NumDefs :
          RequiredDicomSegTags[d1].tag = RequiredDicomSegTags[d2].tag =>
              RequiredDicomSegTags[d1].enum[1] = RequiredDicomSegTags[d2].enum[1]
    /\ (Executed("tags") /\ HoldsDefaults(input.dataElements)) =>
          /\ Len(tagResults) = NumDefs
          /\ \A d \in 1..NumDefs : tagResults[d].kind = "ok"
          /\ ~(Done /\ stages = <<"tags">>)

C25_Witness ==
    /\ HoldsDefaults(input.dataElements)
    /\ stages = <<"tags">>
    /\ pc = "frames"
    /\ Len(tagResults) = NumDefs

(***************************************************************************)
(* The distance test.                                                      *)
(***************************************************************************)
\* the squared distance of the two points, in squared length units
Distance2 ==
    (small.point[1] - small.frameOrigin[1]) * (small.point[1] - small.frameOrigin[1])
    + (small.point[2] - small.frameOrigin[2]) * (small.point[2] - small.frameOrigin[2])
    + (small.point[3] - small.frameOrigin[3]) * (small.point[3] - small.frameOrigin[3])

\* the distance is greater than factor * REAL_WORLD_EPSILON
Beyond(factor) ==
    Distance2 * UnitsPerEpsilonInv * UnitsPerEpsilonInv > factor * factor

\* C26: isNotSmall answers 'not small' exactly when the distance is above
\* 100 REAL_WORLD_EPSILON; it logs one warning when the distance is above
\* REAL_WORLD_EPSILON and at most 100 REAL_WORLD_EPSILON, be it below or
\* above 10 REAL_WORLD_EPSILON, and none otherwise; it always answers.
C26_ThreeThresholds ==
    small.k = "answered" =>
        /\ small.res = Beyond(100)
        /\ logged = IF Beyond(1) /\ ~Beyond(100) THEN 1 ELSE 0
        /\ small.res \in BOOLEAN

\* the distance 10 units (6, 8, 0) is exactly 100 REAL_WORLD_EPSILON: small,
\* with one warning
C26_Witness ==
    /\ small.k = "answered"
    /\ small.point = <<6, 8, 0>>
    /\ Beyond(10) /\ ~Beyond(100)
    /\ ~small.res
    /\ logged = 1

(***************************************************************************)
(* The slice of a frame.                                                   *)
(***************************************************************************)
\* the indices (from 0) of the final positions equal to the position of
\* frame j (from 1)
SlicesAt(j) ==
    {s \in 0..(Len(posPats) - 1) :
        posPats[s + 1] = FrameItems(input)[j].imagePosPat}
Channels == IF storeAsRGB THEN 3 ELSE 1

\* C27: when create merges the frames, the position of every frame is in
\* the final position list, once, so the slice index of the frame is in
\* 0..numberOfSlices-1, and every index mul * (sliceSize * sliceIndex + l) + c
\* is an index of the output buffer.
C27_FramePositionFound ==
    pc = "merge" =>
        \A j \in 1..Len(FrameItems(input)) :
            /\ Cardinality(SlicesAt(j)) = 1
            /\ \A s \in SlicesAt(j), l \in 0..(SamplesPerSlice(input) - 1),
                  c \in 0..(Channels - 1) :
                    Channels * (SamplesPerSlice(input) * s + l) + c
                        \in 0..(Len(buffer) - 1)

\* three frames, the last one off the grid by 10 REAL_WORLD_EPSILON and two
\* slices away from the second one: four final positions
C27_Witness ==
    /\ pc = "merge"
    /\ Len(FrameItems(input)) = 3
    /\ Len(posPats) = 4
    /\ FrameItems(input)[3].imagePosPat = <<0, 0, Mm(3) + 1>>
    /\ SlicesAt(3) = {3}
    /\ f = 3

(***************************************************************************)
(* Termination of gap filling.                                             *)
(***************************************************************************)
GapFillingEnded ==
    /\ pc = "done"
    /\ \/ result.kind = "IntermediatePositionDivergence"
       \/ /\ result.kind = "ok"
          /\ \A g \in 1..Len(framePosPats) : framePosPats[g] \in Range(posPats)

\* C28: on every sorted list of distinct positions and every slice spacing
\* that is not zero, gap filling ends, either with the position of every
\* frame in the final list or with the divergence error, and the number of
\* positions pushed stays below MaxPositions.
C28_GapFillingTerminates ==
    /\ <>GapFillingEnded
    /\ [](Len(posPats) < MaxPositions)

\* a run that has ended with positions inserted before both later frames
C28_Witness ==
    /\ pc = "done"
    /\ result.kind = "ok"
    /\ Len(framePosPats) = 3
    /\ Len(posPats) = 7
    /\ loop.sliceIndex = 6

(***************************************************************************)
(* ListenerHandler.                                                        *)
(***************************************************************************)
\* C29: a callback is not invoked by fireEvent for a type while the last
\* remove call was for that type and that callback and the callback has not
\* been added to the type since.
C29_RemovedIsNotInvoked ==
    ~IsUndefined(dispatch) => ~dispatch.afterRemove

IsPrefix(a, b) == Len(a) <= Len(b) /\ \A n \in 1..Len(a) : a[n] = b[n]

\* C30: when a fireEvent call has ended, the listeners that were registered
\* for the type of the event when it started have been invoked once each, in
\* registration order, before any listener added during the call.
C30_EveryListenerOnceInOrder ==
    (~IsUndefined(dispatch) /\ dispatch.k = "ended") =>
        IsPrefix(dispatch.atStart, dispatch.invoked)

====
